---- MODULE Spec2Model ----
(***************************************************************************)
(* A model of the vdm-io/uikit upload widget: the metadata store           *)
(* (UploadHelper / FileType), the fragment display (DisplayHelper /         *)
(* Display), the file deleter (DeleteFile) and the per-field upload         *)
(* orchestrator (UikitUploader / UploadFile).                               *)
(*                                                                         *)
(* The browser is single-threaded: every action below is one synchronous   *)
(* run of a handler between two suspension points (an awaited fetch, an    *)
(* awaited response.json(), an open confirmation dialog).                  *)
(***************************************************************************)
EXTENDS Integers, Sequences, FiniteSets, TLC

VARIABLES
    data,       \* UploadHelper.#data: store id -> record
    mcalls,     \* init() calls of the store that are suspended on the network
    mstat,      \* history: init calls made and fetches issued, per store id
    got,        \* history: the last get() call and what it returned
    dispRev,    \* which revision of the fragment display the page loads
    area,       \* the display regions of the document: content and hidden
    dcalls,     \* set() calls of the fragment display, with what each did
    dhist,      \* history: display calls started, regions written so far
    delEndpoint, \* DeleteFile.#endpoint
    nodes,      \* the file ids that have a list item in the document
    dels,       \* delete() calls, with what each did
    upRev,      \* which revision of the upload orchestrator the page loads
    uikit,      \* the injected UIkit object: how its upload() treats an
                \* element that already has an upload component
    page,       \* the page: the elements the field's configuration finds
    ui,         \* the type selector, the status elements and the two spans
    inputs,     \* the values of the parameter fields of the page
    timers,     \* the timers set by completeAll that have not fired yet
    utasks,     \* initializeUpload() calls, with what each did
    uploadInstances,    \* UikitUploader.#uploadInstances: field id -> handle
    live,       \* the upload components attached and not destroyed, per field
    uhist,      \* history: initializeUpload() calls and components made
    keyed,      \* the fields of a page and the composite keys they stored under
    boot        \* the page's configuration and what the bootstrap made of it

storeVars == <<data, mcalls, mstat, got>>
displayVars == <<dispRev, area, dcalls, dhist>>
deleteVars == <<delEndpoint, nodes, dels>>
uploadVars == <<upRev, uikit, page, ui, inputs, timers, utasks,
                uploadInstances, live, uhist, keyed, boot>>

vars == <<data, mcalls, mstat, got, dispRev, area, dcalls, dhist,
          delEndpoint, nodes, dels,
          upRev, uikit, page, ui, inputs, timers, utasks,
          uploadInstances, live, uhist, keyed, boot>>

\* What an action of one component leaves alone.
notStore == <<displayVars, deleteVars, uploadVars>>
notDisplay == <<storeVars, deleteVars, uploadVars>>
notDelete == <<storeVars, displayVars, uploadVars>>
notUpload == <<displayVars, deleteVars>>

-----------------------------------------------------------------------------
(* JavaScript values.  Every scalar is a string token, so that values of   *)
(* different JavaScript types can be compared.                             *)

Null == "null"
Undefined == "undefined"
Scalars == {"a"}
Values == {Null} \cup Scalars
ValuesU == Values \cup {Undefined}

Keys == {"k1", "k2"}
\* The fields of a metadata record the widget reads; set() and get() are
\* exercised directly on the first two.
AccessFields == {"allow", "name"}
Fields == AccessFields \cup {"allow_span", "file_type_span", "display_fields",
                             "param_fields"}
Guids == {"g1"}

\* A plain object over Fields: Undefined marks a property the object lacks.
Objects ==
    {o \in [Fields -> ValuesU] : \A f \in Fields \ AccessFields : o[f] = Undefined}
EmptyObject == [f \in Fields |-> Undefined]
OwnKeys(o) == {f \in Fields : o[f] # Undefined}

\* this.#data[id]: undefined (exists = FALSE) or an object.
NoRecord == [exists |-> FALSE, f |-> EmptyObject]
RecordOf(o) == [exists |-> TRUE, f |-> o]

\* Object.assign(target, source): the source's own properties overwrite.
ObjectAssign(target, source) ==
    [f \in Fields |-> IF source[f] # Undefined THEN source[f] ELSE target[f]]

\* The second argument of set(): an object, null, or a property name.
ObjArg(o) == [t |-> "object", o |-> o, k |-> Null]
NullArg == [t |-> "null", o |-> EmptyObject, k |-> Null]
KeyArg(k) == [t |-> "key", o |-> EmptyObject, k |-> k]
SetArgs == {ObjArg(o) : o \in Objects} \cup {NullArg} \cup {KeyArg(k) : k \in AccessFields}

\* set() with the object branch assigning the object instead of merging it.
setReplacing(d, id, keyOrObject, value) ==
    LET cur == IF d[id].exists THEN d[id].f ELSE EmptyObject
        new == IF keyOrObject.t = "object" THEN keyOrObject.o
               ELSE IF keyOrObject.t = "null" THEN cur
               ELSE [cur EXCEPT ![keyOrObject.k] = value]
    IN  [d EXCEPT ![id] = RecordOf(new)]

\* UploadHelper.set(id, keyOrObject, value = null)
set(d, id, keyOrObject, value) ==
    LET cur == IF d[id].exists THEN d[id].f ELSE EmptyObject
        new == IF keyOrObject.t = "object" THEN ObjectAssign(cur, keyOrObject.o)
               ELSE IF keyOrObject.t = "null" THEN cur
               ELSE [cur EXCEPT ![keyOrObject.k] = value]
    IN  [d EXCEPT ![id] = RecordOf(new)]

\* What get() returns: a value, or a whole record object.
Val(v) == [t |-> "value", v |-> v, o |-> EmptyObject]
Obj(o) == [t |-> "object", v |-> Null, o |-> o]

\* a ?? b
Coalesce(a, b) == IF a \in {Null, Undefined} THEN b ELSE a

\* UploadHelper.get(id, key = null, defaultValue = null)
get(d, id, key, defaultValue) ==
    LET idData == d[id]
    IN  IF ~idData.exists THEN Val(defaultValue)
        ELSE IF key = Null THEN Obj(idData.f)
        ELSE Val(Coalesce(idData.f[key], defaultValue))

-----------------------------------------------------------------------------
(* MetadataStore.init: the network side.                                   *)

MaxInit == 3        \* init() calls made in one behaviour
MaxAccess == 3      \* direct set() and get() calls made in one behaviour

MSlots == {1, 2}    \* init() calls that can be suspended at the same time

\* The constructor's endpoint argument (a URL string without a query part).
TypeEndpoint == [path |-> "type", query |-> FALSE]

\* #buildUrl(endpoint, guid): `${endpoint}${separator}guid=${guid}`
buildUrl(endpoint, guid) ==
    [path |-> endpoint.path,
     sep |-> IF endpoint.query THEN "&" ELSE "?",
     params |-> <<"guid", guid>>]

\* A JSON body of the type endpoint: {data: ..., error: ...}, or null.
\* Arrays of element ids, as the values of display_fields and param_fields.
ArrayValues == {"[]", "[p1]", "[p1,p2]"}
ArrayItems(v) ==
    IF v = "[p1]" THEN <<"p1">>
    ELSE IF v = "[p1,p2]" THEN <<"p1", "p2">>
    ELSE <<>>

\* A record as the type endpoint describes a file type in full.
FullRecord ==
    [f \in Fields |->
        IF f = "allow" THEN "a"
        ELSE IF f = "name" THEN "a"
        ELSE IF f = "allow_span" THEN "(a)"
        ELSE IF f = "file_type_span" THEN "image"
        ELSE IF f = "display_fields" THEN "[p1,p2]"
        ELSE "[p1]"]

MetaObjects == {EmptyObject,
                [f \in Fields |-> IF f = "allow" THEN "a" ELSE Undefined],
                [f \in Fields |-> IF f = "name" THEN Null ELSE Undefined],
                FullRecord}
MetaBodies ==
    [kind : {"json"}, d : {"object"}, obj : MetaObjects, err : {"absent", "msg"}]
    \cup [kind : {"json"}, d : {"absent", "null", "scalar"}, obj : {EmptyObject},
          err : {"absent", "msg"}]
    \cup [kind : {"null"}, d : {"absent"}, obj : {EmptyObject}, err : {"absent"}]
BadJson == [kind |-> "bad", d |-> "absent", obj |-> EmptyObject, err |-> "absent"]

IdleCall == [pc |-> "idle", id |-> "k1", guid |-> "g1", reset |-> FALSE,
             url |-> buildUrl(TypeEndpoint, "g1")]

\* The guard of init() with the reset flag forgotten.
InitReusesIgnoringReset(d, id, reset) == d[id].exists

\* The guard of init() with the reset flag inverted.
InitReusesInverted(d, id, reset) == d[id].exists /\ reset

\* init(): `if (this.#data[id] && !reset) return;`
InitReuses(d, id, reset) == d[id].exists /\ ~reset

\* init(): what the fetched result does to the store.  An {error} body throws
\* inside the try block, so the catch of init() swallows it like every other
\* failure; `threw` records that the catch ran.
\* An init() that drops the record when the answer is unusable.
InitResultForgets(d, id, body) ==
    IF body.kind = "json" /\ body.d = "object"
    THEN [data |-> set(d, id, ObjArg(body.obj), Null), threw |-> FALSE]
    ELSE [data |-> [d EXCEPT ![id] = NoRecord], threw |-> body.kind = "bad"]

InitResult(d, id, body) ==
    IF body.kind = "json" /\ body.d = "object"
    THEN [data |-> set(d, id, ObjArg(body.obj), Null), threw |-> FALSE]
    ELSE IF body.kind = "json" /\ body.err = "msg"
    THEN [data |-> d, threw |-> TRUE]
    ELSE [data |-> d, threw |-> body.kind = "bad"]

NoStat == [calls |-> [r \in BOOLEAN |-> 0], fetches |-> [r \in BOOLEAN |-> 0],
           norec |-> 0, overlap |-> FALSE]

TotalCalls == LET n(k) == mstat[k].calls[TRUE] + mstat[k].calls[FALSE]
              IN  n("k1") + n("k2")

Pending(id) == {c \in MSlots : mcalls[c].pc # "idle" /\ mcalls[c].id = id}

\* The last direct access to the store: the call, the record it found and
\* (for get) what it returned.
NoAccess == [op |-> "none", id |-> "k1", arg |-> NullArg, v |-> Null,
             rec |-> NoRecord, result |-> Val(Null), n |-> 0]

StoreInit ==
    /\ data = [k \in Keys |-> NoRecord]
    /\ mcalls = [c \in MSlots |-> IdleCall]
    /\ mstat = [k \in Keys |-> NoStat]
    /\ got = NoAccess

\* The history of one init(id, guid, reset) call at the moment it is made.
CallStat(id, reset, fetches) ==
    [mstat EXCEPT
        ![id].calls[reset] = @ + 1,
        ![id].fetches[reset] = @ + (IF fetches THEN 1 ELSE 0),
        ![id].norec = @ + (IF ~reset /\ ~data[id].exists THEN 1 ELSE 0),
        ![id].overlap = @ \/ Pending(id) # {}]

\* init(id, guid, reset), up to its first suspension (the awaited fetch).
StoreInitCall(c, id, guid, reset) ==
    /\ TotalCalls < MaxInit
    /\ mcalls[c].pc = "idle"
    /\ IF InitReuses(data, id, reset)
       THEN /\ mstat' = CallStat(id, reset, FALSE)
            /\ UNCHANGED mcalls
       ELSE /\ mstat' = CallStat(id, reset, TRUE)
            /\ mcalls' = [mcalls EXCEPT ![c] =
                    [pc |-> "fetch", id |-> id, guid |-> guid, reset |-> reset,
                     url |-> buildUrl(TypeEndpoint, guid)]]
    /\ UNCHANGED <<data, got>>
    /\ UNCHANGED notStore

\* #fetchData: the fetch promise settles.  A rejection lands in the catch of
\* init(); a response that is not ok makes #fetchData return undefined.
StoreFetchSettle(c, outcome) ==
    /\ mcalls[c].pc = "fetch"
    /\ mcalls' = [mcalls EXCEPT ![c] =
            IF outcome = "ok" THEN [@ EXCEPT !.pc = "json"] ELSE IdleCall]
    /\ UNCHANGED <<data, mstat, got>>
    /\ UNCHANGED notStore

\* #fetchData: response.json() settles and init() runs to its end.
StoreJsonSettle(c, body) ==
    /\ mcalls[c].pc = "json"
    /\ data' = InitResult(data, mcalls[c].id, body).data
    /\ mcalls' = [mcalls EXCEPT ![c] = IdleCall]
    /\ UNCHANGED <<mstat, got>>
    /\ UNCHANGED notStore

\* A direct set(id, keyOrObject, value) call.
StoreSet(id, keyOrObject, value) ==
    /\ got.n < MaxAccess
    /\ data' = set(data, id, keyOrObject, value)
    /\ got' = [op |-> "set", id |-> id, arg |-> keyOrObject, v |-> value,
               rec |-> data[id], result |-> Val(Undefined), n |-> got.n + 1]
    /\ UNCHANGED <<mcalls, mstat>>
    /\ UNCHANGED notStore

\* A get(id, key, defaultValue) call; a key of null asks for the whole record.
StoreGet(id, key, defaultValue) ==
    /\ got.n < MaxAccess
    /\ got' = [op |-> "get", id |-> id, arg |-> KeyArg(key), v |-> defaultValue,
               rec |-> data[id], result |-> get(data, id, key, defaultValue),
               n |-> got.n + 1]
    /\ UNCHANGED <<data, mcalls, mstat>>
    /\ UNCHANGED notStore

\* The slot a new call takes: the first free one.
FreeSlot(calls, slots) ==
    IF \E c \in slots : calls[c].pc = "idle"
    THEN {CHOOSE c \in slots : calls[c].pc = "idle" /\ \A b \in slots : calls[b].pc = "idle" => c <= b}
    ELSE {}

\* The store under concurrent init() calls.
StoreNext ==
    \/ \E c \in FreeSlot(mcalls, MSlots), id \in Keys, guid \in Guids, reset \in BOOLEAN :
            StoreInitCall(c, id, guid, reset)
    \/ \E c \in MSlots, outcome \in {"reject", "notok", "ok"} :
            StoreFetchSettle(c, outcome)
    \/ \E c \in MSlots, body \in MetaBodies \cup {BadJson} :
            StoreJsonSettle(c, body)

\* The store under direct set() and get() calls.
AccessNext ==
    \/ \E id \in Keys, a \in {ObjArg(o) : o \in Objects} \cup {NullArg} :
            StoreSet(id, a, Null)
    \/ \E id \in Keys, k \in AccessFields, v \in Values : StoreSet(id, KeyArg(k), v)
    \/ \E id \in Keys, key \in AccessFields \cup {Null}, def \in Values \cup {"dflt"} :
            StoreGet(id, key, def)

-----------------------------------------------------------------------------
(* The fragment display: DisplayHelper.set / Display.set.                  *)

\* The revisions of the fragment display in the repository.
DisplayHelper1 == "DisplayHelper1"      \* the first DisplayHelper
DisplayHelper2 == "DisplayHelper2"      \* DisplayHelper of the 2.1.0 bundle
Display3 == "Display3"                  \* Display of util/display.js, 3.0.0
DisplayRevisions == {DisplayHelper1, DisplayHelper2, Display3}

MaxDisplay == 2     \* display set() calls made in one behaviour

DSlots == {1, 2}
Regions == {"d1"}

\* The values result.data can have: a string, a number, null or nothing.
DataStrings == {"", "   ", "<p>x</p>", " <p>y</p> "}
DataNumber == "number:5"
DataValues == DataStrings \cup {DataNumber, Null, Undefined}

\* String.prototype.trim on the strings above.
Trim(s) ==
    IF s = "   " THEN ""
    ELSE IF s = " <p>y</p> " THEN "<p>y</p>"
    ELSE s

\* JavaScript truthiness of a data value.
Truthy(d) == d \notin {Undefined, Null, ""}

\* The test of  !result.data || result.data.trim() === ''  without the trim.
BlankTestNoTrim(d) ==
    IF ~Truthy(d) THEN "blank"
    ELSE IF d \notin DataStrings THEN "throw"
    ELSE "content"

\* !result.data || result.data.trim() === '' : a number has no trim().
BlankTest(d) ==
    IF ~Truthy(d) THEN "blank"
    ELSE IF d \notin DataStrings THEN "throw"
    ELSE IF Trim(d) = "" THEN "blank"
    ELSE "content"

\* What response.json() of the display endpoint resolves to.
DisplayBodies ==
    [kind : {"json"}, d : DataValues, err : {"absent", "msg"}]
        \cup {[kind |-> "null", d |-> Undefined, err |-> "absent"]}
BadDisplayJson == [kind |-> "bad", d |-> Undefined, err |-> "absent"]
NoBody == [kind |-> "none", d |-> Undefined, err |-> "absent"]

DisplayEndpoints == [path : {"display"}, query : BOOLEAN]
DisplayParams == {<<>>, <<"guid", "g1">>}

\* #buildUrl(endpoint, params) of the display.
DisplayBuildUrl(rev, endpoint, params) ==
    IF rev # DisplayHelper1 /\ params = <<>>
    THEN [path |-> endpoint.path, sep |-> "", params |-> <<>>]
    ELSE [path |-> endpoint.path,
          sep |-> IF endpoint.query THEN "&" ELSE "?",
          params |-> params]

\* The namespace of the display's events.
DisplayNamespace(rev) ==
    IF rev = Display3 THEN "vdm.uikit.display" ELSE "vdm.uikit.uploader"

\* One thing a call did: an event it dispatched, the request it issued or a
\* DOM write, with the region as an observer sees it right after.
\* t tells whether a display call had written to the region before.
Entry(kind, ns, name, a, t) ==
    [kind |-> kind, ns |-> ns, name |-> name, a |-> a, t |-> t]

\* #dispatchEvent(eventName, detail)
Event(rev, name, a, t) == Entry("event", DisplayNamespace(rev), name, a, t)
Dom(name, a) == Entry("dom", "", name, a, TRUE)
Request(a, t) == Entry("fetch", "", "fetch", a, t)

IdleDisplay ==
    [pc |-> "idle", region |-> "d1",
     url |-> [path |-> "display", sep |-> "", params |-> <<>>],
     trace |-> <<>>, ok |-> FALSE, body |-> NoBody]

Areas == [content : {"", "<p>old</p>"}, hidden : BOOLEAN]

DisplayInit ==
    /\ dispRev \in DisplayRevisions
    /\ area \in [Regions -> Areas]
    /\ dcalls = [c \in DSlots |-> IdleDisplay]
    /\ dhist = [n |-> 0, touched |-> [r \in Regions |-> FALSE]]

\* The display while another component is exercised.
DisplayIdle ==
    /\ dispRev = Display3
    /\ area = [r \in Regions |-> [content |-> "", hidden |-> TRUE]]
    /\ dcalls = [c \in DSlots |-> IdleDisplay]
    /\ dhist = [n |-> 0, touched |-> [r \in Regions |-> FALSE]]

\* The branch that empties the region.
HideEntries(rev, a, t) ==
    LET a1 == [a EXCEPT !.content = ""]
        a2 == [a1 EXCEPT !.hidden = TRUE]
    IN  IF rev = DisplayHelper1 THEN <<Dom("innerHTML", a1)>>
        ELSE <<Event(rev, "beforeHideFilesDisplay", a, t),
               Dom("innerHTML", a1),
               Dom("setAttribute", a2),
               Event(rev, "afterHideFilesDisplay", a2, TRUE)>>

\* The branch that shows result.data.
ShowEntries(rev, a, t, d) ==
    LET a1 == [a EXCEPT !.content = d]
        a2 == [a1 EXCEPT !.hidden = FALSE]
    IN  IF rev = DisplayHelper1 THEN <<Dom("innerHTML", a1)>>
        ELSE <<Event(rev, "beforeFilesDisplay", a, t),
               Dom("innerHTML", a1),
               Dom("removeAttribute", a2),
               Event(rev, "afterFilesDisplay", a2, TRUE)>>

\* The catch block: only the first revision empties the region.
CatchEntries(rev, a) ==
    IF rev = DisplayHelper1 THEN <<Dom("innerHTML", [a EXCEPT !.content = ""])>>
    ELSE <<>>

\* set() from the resolved body on.  Reading a property of a null body and
\* calling trim() on a number throw into the catch block.
DisplayRender(rev, a, t, body) ==
    IF body.kind # "json" THEN CatchEntries(rev, a)
    ELSE IF rev # DisplayHelper1 /\ body.err = "msg" THEN <<>>
    ELSE IF BlankTest(body.d) = "blank" THEN HideEntries(rev, a, t)
    ELSE IF BlankTest(body.d) = "throw" THEN CatchEntries(rev, a)
    ELSE ShowEntries(rev, a, t, body.d)

\* The region after a run of entries, and whether the run wrote to it.
AreaAfter(a, entries) == IF entries = <<>> THEN a ELSE entries[Len(entries)].a
Writes(entries) == \E i \in 1..Len(entries) : entries[i].kind = "dom"

\* The tail of a call of a display that would drop the calls still in
\* flight for the region when a response is applied.
DisplayFinishCancelling(c, entries, ok, body) ==
    LET r == dcalls[c].region
    IN  /\ dcalls' = [o \in DSlots |->
                IF o = c
                THEN [dcalls[c] EXCEPT !.pc = "done", !.trace = @ \o entries,
                                       !.ok = ok, !.body = body]
                ELSE IF dcalls[o].region = r /\ dcalls[o].pc \in {"fetch", "json"}
                THEN [dcalls[o] EXCEPT !.pc = "done"]
                ELSE dcalls[o]]
        /\ area' = [area EXCEPT ![r] = AreaAfter(@, entries)]
        /\ dhist' = [dhist EXCEPT !.touched[r] = @ \/ Writes(entries)]

\* The synchronous tail of a call: what it did, the region, the history.
DisplayFinish(c, entries, ok, body) ==
    LET r == dcalls[c].region
    IN  /\ dcalls' = [dcalls EXCEPT ![c].pc = "done",
                                    ![c].trace = @ \o entries,
                                    ![c].ok = ok,
                                    ![c].body = body]
        /\ area' = [area EXCEPT ![r] = AreaAfter(@, entries)]
        /\ dhist' = [dhist EXCEPT !.touched[r] = @ \/ Writes(entries)]

\* set(displayEndpoint, displayArea, params) up to the awaited fetch, as it
\* acts on the display.
DisplayStart(c, r, endpoint, params) ==
    /\ dhist.n < MaxDisplay
    /\ dcalls[c].pc \in {"idle", "done"}
    /\ LET t == dhist.touched[r]
           before == IF dispRev = Display3
                     THEN <<Event(dispRev, "beforeGetFilesDisplay", area[r], t)>>
                     ELSE <<>>
       IN  dcalls' = [dcalls EXCEPT ![c] =
                [pc |-> "fetch", region |-> r,
                 url |-> DisplayBuildUrl(dispRev, endpoint, params),
                 trace |-> before \o <<Request(area[r], t)>>,
                 ok |-> FALSE, body |-> NoBody]]
    /\ dhist' = [dhist EXCEPT !.n = @ + 1]
    /\ UNCHANGED <<dispRev, area>>

\* set() called on its own.
DisplaySet(c, r, endpoint, params) ==
    /\ DisplayStart(c, r, endpoint, params)
    /\ UNCHANGED notDisplay

\* The fetch settles: rejected, answered with a non-OK status, or OK.
DisplayFetchSettle(c, outcome) ==
    /\ dcalls[c].pc = "fetch"
    /\ IF outcome = "ok"
       THEN /\ dcalls' = [dcalls EXCEPT ![c].pc = "json", ![c].ok = TRUE]
            /\ UNCHANGED <<area, dhist>>
       ELSE IF outcome = "notok"
       THEN DisplayFinish(c, <<>>, FALSE, NoBody)
       ELSE DisplayFinish(c, CatchEntries(dispRev, area[dcalls[c].region]),
                          FALSE, NoBody)
    /\ UNCHANGED dispRev
    /\ UNCHANGED notDisplay

\* response.json() settles and set() runs to its end.
DisplayJsonSettle(c, body) ==
    /\ dcalls[c].pc = "json"
    /\ LET r == dcalls[c].region
       IN  DisplayFinish(c, DisplayRender(dispRev, area[r], dhist.touched[r], body),
                         TRUE, body)
    /\ UNCHANGED dispRev
    /\ UNCHANGED notDisplay

\* The lowest slot that can take a new display call.
FreeDisplaySlot ==
    LET free == {c \in DSlots : dcalls[c].pc \in {"idle", "done"}}
    IN  IF free # {} THEN {CHOOSE c \in free : \A o \in free : c <= o} ELSE {}

DisplayNext ==
    \/ \E c \in FreeDisplaySlot, r \in Regions, e \in DisplayEndpoints,
          p \in DisplayParams : DisplaySet(c, r, e, p)
    \/ \E c \in DSlots, outcome \in {"reject", "notok", "ok"} :
            DisplayFetchSettle(c, outcome)
    \/ \E c \in DSlots, body \in DisplayBodies \cup {BadDisplayJson} :
            DisplayJsonSettle(c, body)

-----------------------------------------------------------------------------
(* The file deleter: DeleteFile.                                           *)

GuidLengthLimit == 30   \* delete() ignores ids of at most this length

MaxDelete == 2      \* delete() calls made in one behaviour

XSlots == {1, 2}

\* The argument of delete(): nothing, null, or a string of some length.
\* Strings of different lengths are different ids.
Str(n) == [t |-> "string", len |-> n]
IdLengths == {0, 1, GuidLengthLimit - 1, GuidLengthLimit, GuidLengthLimit + 1,
              GuidLengthLimit + 6}
FileIds == {[t |-> "undefined", len |-> 0], [t |-> "null", len |-> 0]}
               \cup {Str(n) : n \in IdLengths}
LongIds == {Str(GuidLengthLimit + 1), Str(GuidLengthLimit + 6)}

\* The guard with the limit itself let through.
DeleteIgnoresBelow(fileGuid) ==
    \/ fileGuid.t # "string"
    \/ fileGuid.len = 0
    \/ fileGuid.len < GuidLengthLimit

\* !fileGuid || fileGuid.length <= 30
DeleteIgnores(fileGuid) ==
    \/ fileGuid.t # "string"
    \/ fileGuid.len = 0
    \/ fileGuid.len <= GuidLengthLimit

\* The configured delete endpoint: none, or a URL with or without a query.
NoEndpoint == [path |-> "", query |-> FALSE]
DeleteEndpoints == {NoEndpoint} \cup [path : {"delete"}, query : BOOLEAN]

\* #buildUrl(guid) of the deleter.
DeleteBuildUrl(e, guid) ==
    [path |-> e.path, sep |-> IF e.query THEN "&" ELSE "?",
     params |-> <<"guid", guid>>]

\* What response.json() of the delete endpoint resolves to.
DeleteBodies ==
    [kind : {"json"}, success : {"absent", "msg"}, error : {"absent", "msg"}]
        \cup {[kind |-> "null", success |-> "absent", error |-> "absent"]}
BadDeleteJson == [kind |-> "bad", success |-> "absent", error |-> "absent"]

\* One thing a delete() call did.
Did(kind, name, arg) == [kind |-> kind, name |-> name, arg |-> arg]

\* No response body (yet).
NoAnswer == [kind |-> "none", success |-> "absent", error |-> "absent"]

\* #dispatchEvent(eventName, detail): the detail names the file id and holds
\* the response body where the code passes it.
DeleteEvent(name, guid, body) ==
    [kind |-> "event", name |-> "vdm.uikit.delete", arg |-> name,
     detail |-> [guid |-> guid, data |-> body]]

\* answer is what response.json() resolved to, present whether the list item
\* of the id was in the document when the response was handled, over whether
\* the call was confirmed while another request for the same id was out.
IdleDelete ==
    [pc |-> "idle", guid |-> Str(0), trace |-> <<>>, unhandled |-> FALSE, no |-> 0,
     answer |-> NoAnswer, present |-> FALSE, over |-> FALSE]

CallsMade == LET n(c) == dels[c].no
             IN  IF n(1) > n(2) THEN n(1) ELSE n(2)

DeleteInit ==
    /\ delEndpoint \in DeleteEndpoints
    /\ nodes \in SUBSET LongIds
    /\ dels = [c \in XSlots |-> IdleDelete]

\* The deleter while another component is exercised.
DeleteIdle ==
    /\ delEndpoint = NoEndpoint
    /\ nodes = {}
    /\ dels = [c \in XSlots |-> IdleDelete]

\* delete(fileGuid): return at once, or open the confirmation dialog.
Delete(c, fileGuid) ==
    /\ CallsMade < MaxDelete
    /\ dels[c].pc \in {"idle", "done"}
    /\ dels' = [dels EXCEPT ![c] =
            IF DeleteIgnores(fileGuid)
            THEN [pc |-> "done", guid |-> fileGuid, trace |-> <<>>,
                  unhandled |-> FALSE, no |-> CallsMade + 1,
                  answer |-> NoAnswer, present |-> FALSE, over |-> FALSE]
            ELSE [pc |-> "confirm", guid |-> fileGuid,
                  trace |-> <<Did("confirm", "modal.confirm", "")>>,
                  unhandled |-> FALSE, no |-> CallsMade + 1,
                  answer |-> NoAnswer, present |-> FALSE, over |-> FALSE]]
    /\ UNCHANGED <<delEndpoint, nodes>>
    /\ UNCHANGED notDelete

\* A #serverDelete that goes on without an endpoint.
HasEndpointAlways(e) == TRUE

\* this.#endpoint is truthy.
HasEndpoint(e) == e # NoEndpoint

\* The user confirms: the dialog's promise resolves and #serverDelete runs
\* up to its fetch.
DeleteConfirm(c) ==
    /\ dels[c].pc = "confirm"
    /\ dels' = [dels EXCEPT ![c] =
            IF ~HasEndpoint(delEndpoint)
            THEN [@ EXCEPT !.pc = "done"]
            ELSE [@ EXCEPT !.pc = "fetch",
                           !.over = \E o \in XSlots \ {c} :
                                        /\ dels[o].guid = dels[c].guid
                                        /\ dels[o].pc \in {"fetch", "json"},
                           !.trace = @ \o <<DeleteEvent("beforeFileDelete", dels[c].guid, NoAnswer),
                                Did("fetch", "GET", DeleteBuildUrl(delEndpoint, dels[c].guid))>>]]
    /\ UNCHANGED <<delEndpoint, nodes>>
    /\ UNCHANGED notDelete

\* The user declines.  The dialog belongs to the injected UIkit object: its
\* promise is either rejected or left pending for good, and delete() chained
\* only a fulfilment handler onto it, so a rejection reaches no handler.
DeleteDecline(c, rejects) ==
    /\ dels[c].pc = "confirm"
    /\ dels' = [dels EXCEPT ![c].pc = "declined", ![c].unhandled = rejects]
    /\ UNCHANGED <<delEndpoint, nodes>>
    /\ UNCHANGED notDelete

\* The fetch settles.  A rejection goes to .catch(console.error); any
\* response, whatever its status, goes on to response.json().
DeleteFetchSettle(c, outcome) ==
    /\ dels[c].pc = "fetch"
    /\ dels' = [dels EXCEPT ![c] =
            IF outcome = "reject"
            THEN [@ EXCEPT !.pc = "done",
                           !.trace = @ \o <<Did("log", "console.error", "")>>]
            ELSE [@ EXCEPT !.pc = "json"]]
    /\ UNCHANGED <<delEndpoint, nodes>>
    /\ UNCHANGED notDelete

\* #handleResponse with an {error} answer dispatched but not shown.
HandleResponseQuietError(fileGuid, body, present) ==
    IF body.kind # "json" THEN <<Did("log", "console.error", "")>>
    ELSE IF body.success # "absent"
    THEN (IF present
          THEN <<DeleteEvent("beforeFileRemoveFromUI", fileGuid, NoAnswer),
                 Did("remove", "remove", fileGuid)>>
          ELSE <<>>)
         \o <<Did("notify", "primary", body.success),
               DeleteEvent("afterFileDelete", fileGuid, body)>>
    ELSE IF body.error # "absent"
    THEN <<DeleteEvent("onFileDeleteError", fileGuid, body)>>
    ELSE <<>>

\* #handleResponse with the notification shown before the list item goes.
HandleResponseNotifyFirst(fileGuid, body, present) ==
    IF body.kind # "json" THEN <<Did("log", "console.error", "")>>
    ELSE IF body.success # "absent"
    THEN <<Did("notify", "primary", body.success)>>
         \o (IF present
             THEN <<DeleteEvent("beforeFileRemoveFromUI", fileGuid, NoAnswer),
                    Did("remove", "remove", fileGuid)>>
             ELSE <<>>)
         \o <<DeleteEvent("afterFileDelete", fileGuid, body)>>
    ELSE IF body.error # "absent"
    THEN <<DeleteEvent("onFileDeleteError", fileGuid, body),
           Did("notify", "danger", body.error)>>
    ELSE <<>>

\* #handleResponse with a #fileRemoveFromUI that does not test whether the
\* list item is in the document.
HandleResponseRemoveAlways(fileGuid, body, present) ==
    IF body.kind # "json" THEN <<Did("log", "console.error", "")>>
    ELSE IF body.success # "absent"
    THEN <<DeleteEvent("beforeFileRemoveFromUI", fileGuid, NoAnswer),
           Did("remove", "remove", fileGuid),
           Did("notify", "primary", body.success),
           DeleteEvent("afterFileDelete", fileGuid, body)>>
    ELSE IF body.error # "absent"
    THEN <<DeleteEvent("onFileDeleteError", fileGuid, body),
           Did("notify", "danger", body.error)>>
    ELSE <<>>

\* #handleResponse(fileGuid, data), with #fileRemoveFromUI and
\* #showNotification; reading data.success of null throws into the catch.
HandleResponse(fileGuid, body, present) ==
    IF body.kind # "json" THEN <<Did("log", "console.error", "")>>
    ELSE IF body.success # "absent"
    THEN (IF present
          THEN <<DeleteEvent("beforeFileRemoveFromUI", fileGuid, NoAnswer),
                 Did("remove", "remove", fileGuid)>>
          ELSE <<>>)
         \o <<Did("notify", "primary", body.success),
               DeleteEvent("afterFileDelete", fileGuid, body)>>
    ELSE IF body.error # "absent"
    THEN <<DeleteEvent("onFileDeleteError", fileGuid, body),
           Did("notify", "danger", body.error)>>
    ELSE <<>>

\* response.json() settles and the chain runs to its end.
DeleteJsonSettle(c, body) ==
    /\ dels[c].pc = "json"
    /\ LET g == dels[c].guid
           did == HandleResponse(g, body, g \in nodes)
       IN  /\ dels' = [dels EXCEPT ![c].pc = "done", ![c].trace = @ \o did,
                                  ![c].answer = body, ![c].present = g \in nodes]
           /\ nodes' = IF \E i \in 1..Len(did) : did[i].kind = "remove"
                       THEN nodes \ {g} ELSE nodes
    /\ UNCHANGED delEndpoint
    /\ UNCHANGED notDelete

\* The lowest slot that can take a new delete() call.
FreeDeleteSlot ==
    LET free == {c \in XSlots : dels[c].pc \in {"idle", "done"}}
    IN  IF free # {} THEN {CHOOSE c \in free : \A o \in free : c <= o} ELSE {}

DeleteNext ==
    \/ \E c \in FreeDeleteSlot, g \in FileIds : Delete(c, g)
    \/ \E c \in XSlots : DeleteConfirm(c)
    \/ \E c \in XSlots, rejects \in BOOLEAN : DeleteDecline(c, rejects)
    \/ \E c \in XSlots, outcome \in {"reject", "response"} : DeleteFetchSettle(c, outcome)
    \/ \E c \in XSlots, body \in DeleteBodies \cup {BadDeleteJson} :
            DeleteJsonSettle(c, body)

-----------------------------------------------------------------------------
(* The upload orchestrator: UikitUploader / UploadFile.  One field, f1, is  *)
(* configured.                                                             *)

\* The revisions of the orchestrator whose #initUpload awaits only the store.
UikitUploader1 == "UikitUploader1"      \* the first UikitUploader
UikitUploader2 == "UikitUploader2"      \* UikitUploader of the 2.1.0 bundle
UikitUploader2b == "UikitUploader2b"    \* UikitUploader, source after 2.1.0
UploadFile3 == "UploadFile3"            \* UploadFile of the 3.0.0 bundle
UploadRevisions == {UikitUploader1, UikitUploader2, UikitUploader2b, UploadFile3}

\* The display each orchestrator constructs (the source after 2.1.0 imports
\* a DisplayHelper, taken to be the one of 2.1.0).
DisplayOf(rev) ==
    IF rev = UikitUploader1 THEN DisplayHelper1
    ELSE IF rev = UploadFile3 THEN Display3
    ELSE DisplayHelper2

MaxUpload == 3      \* initializeUpload() calls made in one behaviour

USlots == {1, 2}
UploadFields == {"f1"}
NoHandle == 0

\* The values of the type selector: strings of length 0, 1, 2 and 36.
TypeGuids == {Str(0), Str(1), Str(2), Str(36)}

\* What initializeUpload() can be handed: a selector value or nothing.
TypeValues == TypeGuids \cup {[t |-> "undefined", len |-> 0]}

\* const call = `${id}${typeGuid}`: the composite keys of field f1 are the
\* store ids k1 (type of length 2) and k2.
CallKey(id, typeGuid) == IF typeGuid = Str(2) THEN "k1" ELSE "k2"

\* A guard that takes every non-empty value for a type.
TypeSelectedNonEmpty(guid) == guid.t = "string" /\ guid.len > 0

\* guid && guid.length > 1
TypeSelected(guid) == guid.t = "string" /\ guid.len > 1

\* The metadata answer of a call that has none (yet).
NoMeta == [kind |-> "none", d |-> "absent", obj |-> EmptyObject, err |-> "absent"]

\* net is how the metadata fetch of the call settled, answer what its
\* response.json() resolved to.
IdleTask ==
    [pc |-> "idle", id |-> "f1", typeGuid |-> Str(0), trace |-> <<>>,
     net |-> "none", answer |-> NoMeta]

UploadEvent(name) == Did("event", "vdm.uikit.uploader", name)

\* The elements the field's configuration can name.
ElementNames == {"progress", "success", "error", "allowedFormatSpan", "fileTypeSpan"}

\* The page: which configured elements exist, whether a display endpoint is
\* configured and whether its region exists.
Pages ==
    [typeField : BOOLEAN, elements : SUBSET ElementNames,
     displayEndpoint : BOOLEAN, displayArea : BOOLEAN]

\* The page of the README, without a display.
PlainPage ==
    [typeField |-> TRUE, elements |-> ElementNames,
     displayEndpoint |-> FALSE, displayArea |-> FALSE]

\* The elements as the README's markup has them.
InitialUi(selected) ==
    [selector |-> selected,
     hidden |-> [e \in {"progress", "success", "error"} |-> TRUE],
     text |-> [e \in ElementNames \ {"progress"} |->
                IF e = "fileTypeSpan" THEN "file" ELSE ""],
     bar |-> [max |-> 100, value |-> 0]]

\* The parameter fields of the page, and what the user can type in them.
InputNames == {"p1", "p2"}
InputValues == {"x", "y"}

\* The parameter fields of the README's page.
PlainInputs == [p \in InputNames |-> "x"]

\* No upload callback has run; what a callback that carries no progress
\* event is given.
NoEvent == [total |-> 0, loaded |-> 0]
NoCallback == [callback |-> "none", event |-> NoEvent, trace |-> <<>>]

\* environment.data as a pre-send callback finds it: the files, and a
\* params entry that is absent or holds what a listener of an earlier event
\* has put there.
NoParams == [given |-> FALSE, entries |-> <<>>]
Payloads ==
    {[files |-> "files", params |-> q] :
        q \in {NoParams, [given |-> TRUE, entries |-> <<"token", "t">>]}}
NoRequest ==
    [before |-> [files |-> "none", params |-> NoParams],
     after |-> [files |-> "none", params |-> NoParams]]

\* keys is the composite key each component's callbacks were bound to;
\* shown says that an element was un-hidden since the last completeAll,
\* uncaught that a timer's callback threw, last is the upload callback that
\* ran last, with what it dispatched and notified, request the payload of
\* the last pre-send callback as it found and as it left it.
NoHistory ==
    [calls |-> 0, made |-> 0, constructed |-> FALSE, keys |-> <<>>,
     batches |-> 0, shown |-> FALSE, uncaught |-> FALSE, last |-> NoCallback,
     request |-> NoRequest]

\* The orchestrator on the README's page, before its constructor has run.
UploadInit ==
    /\ upRev \in UploadRevisions
    /\ uikit \in [replaces : BOOLEAN]
    /\ page \in {PlainPage, [PlainPage EXCEPT !.typeField = FALSE]}
    /\ ui \in {InitialUi(g) : g \in {Str(0), Str(2)}}
    /\ inputs = PlainInputs
    /\ timers = 0
    /\ utasks = [c \in USlots |-> IdleTask]
    /\ uploadInstances = [f \in UploadFields |-> NoHandle]
    /\ live = [f \in UploadFields |-> {}]
    /\ uhist = NoHistory

\* The orchestrator while another component is exercised.
UploadIdle ==
    /\ upRev = UploadFile3
    /\ uikit = [replaces |-> TRUE]
    /\ page = PlainPage
    /\ ui = InitialUi(Str(0))
    /\ inputs = PlainInputs
    /\ timers = 0
    /\ utasks = [c \in USlots |-> IdleTask]
    /\ uploadInstances = [f \in UploadFields |-> NoHandle]
    /\ live = [f \in UploadFields |-> {}]
    /\ uhist = NoHistory

\* The elements of the pages in use: any of the three status elements,
\* with the file-type span and with or without the allowed-format span.
BatchElements ==
    {s \cup t : s \in SUBSET {"progress", "success", "error"},
                t \in {{"fileTypeSpan"}, {"allowedFormatSpan", "fileTypeSpan"}}}

\* A page in use, its type selected, before its constructor has run.
BatchInit ==
    /\ upRev \in UploadRevisions
    /\ uikit = [replaces |-> TRUE]
    /\ page \in {g \in [typeField : {TRUE}, elements : BatchElements,
                          displayEndpoint : BOOLEAN, displayArea : BOOLEAN] :
                    g.displayEndpoint \/ g.displayArea}
    /\ ui = InitialUi(Str(2))
    /\ inputs \in {PlainInputs, [PlainInputs EXCEPT !["p2"] = "missing"]}
    /\ timers = 0
    /\ utasks = [c \in USlots |-> IdleTask]
    /\ uploadInstances = [f \in UploadFields |-> NoHandle]
    /\ live = [f \in UploadFields |-> {}]
    /\ uhist = NoHistory

\* The answer that holds the full record.
FullAnswer == [kind |-> "json", d |-> "object", obj |-> FullRecord, err |-> "absent"]

\* The metadata answers of the pages in use: a record with display fields,
\* a record without, an error.
BatchBodies ==
    {[kind |-> "json", d |-> "object", obj |-> o, err |-> "absent"] :
        o \in {FullRecord, EmptyObject}}
    \cup {[kind |-> "json", d |-> "absent", obj |-> EmptyObject, err |-> "msg"]}

\* init(call, typeGuid) of the first UikitUploader passes no reset flag.
PassesReset(rev) == rev # UikitUploader1

\* The first UikitUploader dispatches no events.
DispatchesEvents(rev) == rev # UikitUploader1

\* #setupDisplayArea at the head of #initField: not in the first revision.
DisplaysAtConstruction(rev) == rev # UikitUploader1

\* The first UikitUploader and the 2.1.0 bundle keep the handle and destroy
\* the one they kept.
KeepsHandle(rev) == rev \in {UikitUploader1, UikitUploader2}

\* The display endpoint of the field and the region it names.
UploadDisplayEndpoint == [path |-> "display", query |-> FALSE]
UploadRegion == "d1"

\* displayEndpoint && displayArea
ShowsDisplay == page.displayEndpoint /\ page.displayArea

\* A getParams that keeps an id whose element is missing, with null.
RECURSIVE ParamsOfNullFilled(_, _)
ParamsOfNullFilled(items, in) ==
    IF items = <<>> THEN <<>>
    ELSE <<Head(items), IF in[Head(items)] = "missing" THEN Null ELSE in[Head(items)]>>
            \o ParamsOfNullFilled(Tail(items), in)

\* getParams(ids): the values of the elements that exist, in the order of
\* ids; nothing when ids is not a non-empty array.
RECURSIVE ParamsOf(_, _)
ParamsOf(items, in) ==
    IF items = <<>> THEN <<>>
    ELSE (IF in[Head(items)] = "missing" THEN <<>>
          ELSE <<Head(items), in[Head(items)]>>) \o ParamsOf(Tail(items), in)

\* A getParams that reports the values the page was loaded with.
getParamsAtLoad(ids, in) == ParamsOf(ArrayItems(ids), PlainInputs)

getParams(ids, in) == ParamsOf(ArrayItems(ids), in)

\* The display call an orchestrator step makes, if it makes one.
DisplayFrom(shows, params) ==
    IF shows
    THEN \E d \in FreeDisplaySlot :
            DisplayStart(d, UploadRegion, UploadDisplayEndpoint, params)
    ELSE UNCHANGED displayVars

\* initializeUpload(guid) and #initUpload up to the await of the store's
\* init(): the call as it stands there.  pc is "tail" when init() returns
\* at its guard, so that the rest of #initUpload follows with no other
\* handler in between.
TaskStarted(id, guid) ==
    LET reuses == InitReuses(data, CallKey(id, guid), PassesReset(upRev))
    IN  IF ~TypeSelected(guid)
        THEN [IdleTask EXCEPT !.pc = "done", !.id = id, !.typeGuid = guid]
        ELSE [IdleTask EXCEPT
                !.pc = IF reuses THEN "tail" ELSE "fetch",
                !.id = id, !.typeGuid = guid,
                !.trace = (IF DispatchesEvents(upRev)
                           THEN <<UploadEvent("beforeInit")>> ELSE <<>>)
                          \o (IF reuses THEN <<>>
                              ELSE <<Did("fetch", "GET", buildUrl(TypeEndpoint, guid))>>)]

\* The elements of the page after #prepareUploadUI (in the first
\* UikitUploader the statements inlined in #initUpload, whose file-type
\* statement writes to the allowed-format element).
PreparedUi(rev, u, el, d, call) ==
    LET allowSpan == get(d, call, "allow_span", "").v
        typeSpan == get(d, call, "file_type_span", "file").v
        hid == [e \in DOMAIN u.hidden |->
                    IF e \in {"success", "error"} /\ e \in el THEN TRUE ELSE u.hidden[e]]
        txt == [e \in DOMAIN u.text |->
                    IF e = "allowedFormatSpan" /\ e \in el
                    THEN (IF rev = UikitUploader1 /\ "fileTypeSpan" \in el
                          THEN typeSpan ELSE allowSpan)
                    ELSE IF e = "fileTypeSpan" /\ e \in el /\ rev # UikitUploader1
                    THEN typeSpan
                    ELSE u.text[e]]
    IN  [u EXCEPT !.hidden = hid, !.text = txt]

\* allowedFormatSpan.textContent = ... under if (fileTypeSpan): a TypeError
\* when only the file-type element exists.
PrepareThrows(rev, el) ==
    rev = UikitUploader1 /\ "fileTypeSpan" \in el /\ "allowedFormatSpan" \notin el

\* The upload endpoint of the field.
UploadEndpoint == [path |-> "upload", query |-> FALSE]

\* Options made for the type that is selected when the response arrives.
UploadOptionsSelected(rev, d, call, typeGuid) ==
    [url |-> buildUrl([path |-> "upload", query |-> FALSE], ui.selector),
     multiple |-> TRUE,
     allow |-> get(d, call, "allow", "false").v,
     name |-> get(d, call, "name", "files").v]

\* The options uikit.upload() is given: the url with the type, and the allow
\* filter and the field name, which the first UikitUploader hands over as
\* functions that read the store when called.
UploadOptions(rev, d, call, typeGuid) ==
    [url |-> buildUrl(UploadEndpoint, typeGuid),
     multiple |-> TRUE,
     allow |-> IF rev = UikitUploader1 THEN "function"
               ELSE get(d, call, "allow", "false").v,
     name |-> IF rev = UikitUploader1 THEN "function"
              ELSE get(d, call, "name", "files").v]

\* The display call of the first UikitUploader inside #initUpload.
TailDisplays == upRev = UikitUploader1 /\ ShowsDisplay /\ ~PrepareThrows(upRev, page.elements)

\* A catch that shows the error and lets it reach the .catch of the caller.
CaughtTwice(message) ==
    <<Did("notify", "danger", message), Did("notify", "danger", message)>>

\* A catch that swallows the error.
CaughtSilently(message) == <<>>

\* catch (error) { this.#showNotification(error.message, 'danger') }
Caught(message) == <<Did("notify", "danger", message)>>

\* #initUpload after the await, for the call t in slot c, with the store d,
\* the page u and the history hi: the elements, afterElementsInit, the
\* teardown of the kept handle, #prepareUploadUI and uikit.upload(), which
\* attaches a component or throws; the catch of initializeUpload shows what
\* was thrown.
InitUploadTail(c, t, d, u, hi, attaches) ==
    LET f == t.id
        call == CallKey(f, t.typeGuid)
        old == uploadInstances[f]
        h == hi.made + 1
        destroyed == IF KeepsHandle(upRev) /\ old # NoHandle THEN {old} ELSE {}
        kept == IF uikit.replaces THEN {} ELSE live[f] \ destroyed
        head == t.trace
                \o (IF DispatchesEvents(upRev)
                    THEN <<UploadEvent("afterElementsInit")>> ELSE <<>>)
                \o (IF destroyed # {} THEN <<Did("destroy", "$destroy", old)>> ELSE <<>>)
                \o <<Did("prepare", "prepareUploadUI", NoHandle)>>
        thrown == IF PrepareThrows(upRev, page.elements) THEN "TypeError" ELSE "lib"
    IN  /\ ui' = PreparedUi(upRev, u, page.elements, d, call)
        /\ IF PrepareThrows(upRev, page.elements) \/ ~attaches
           THEN /\ utasks' = [utasks EXCEPT ![c] =
                        [t EXCEPT !.pc = "done",
                                  !.trace = head \o Caught(thrown)]]
                /\ live' = [live EXCEPT ![f] = @ \ destroyed]
                /\ uploadInstances' = uploadInstances
                /\ uhist' = hi
           ELSE /\ utasks' = [utasks EXCEPT ![c] =
                        [t EXCEPT !.pc = "done",
                                  !.trace = head \o <<Did("attach", "upload",
                                        [handle |-> h] @@ UploadOptions(upRev, d, call, t.typeGuid))>>]]
                /\ live' = [live EXCEPT ![f] = kept \cup {h}]
                /\ uploadInstances' = IF KeepsHandle(upRev)
                                      THEN [uploadInstances EXCEPT ![f] = h]
                                      ELSE uploadInstances
                /\ uhist' = [hi EXCEPT !.made = h, !.keys = Append(@, call)]

\* The display call a step of the orchestrator makes: at construction in
\* the later revisions, inside #initUpload in the first.
StepDisplay(constructing, tailRuns, d, call) ==
    IF DisplaysAtConstruction(upRev)
    THEN DisplayFrom(constructing /\ ShowsDisplay, <<>>)
    ELSE DisplayFrom(tailRuns /\ TailDisplays,
                     getParams(get(d, call, "display_fields", Null).v, inputs))

\* initializeUpload(guid) from the page u and the history hi.
Begin(c, guid, u, hi, attaches, constructing) ==
    LET t == TaskStarted("f1", guid)
    IN  /\ IF t.pc = "tail"
           THEN InitUploadTail(c, t, data, u, hi, attaches)
           ELSE /\ utasks' = [utasks EXCEPT ![c] = t]
                /\ ui' = u
                /\ uhist' = hi
                /\ UNCHANGED <<uploadInstances, live>>
        /\ StepDisplay(constructing, t.pc = "tail", data, CallKey("f1", guid))

\* A constructor whose #initField looks the type selector up first and
\* sets the display up after it.
ConstructSelectorFirst(c, attaches) ==
    /\ ~uhist.constructed
    /\ utasks[c].pc = "idle"
    /\ IF page.typeField
       THEN Begin(c, ui.selector, ui,
                  [uhist EXCEPT !.constructed = TRUE, !.calls = @ + 1],
                  attaches, TRUE)
       ELSE /\ uhist' = [uhist EXCEPT !.constructed = TRUE]
            /\ UNCHANGED <<utasks, ui, uploadInstances, live>>
            /\ UNCHANGED displayVars
    /\ UNCHANGED <<boot, keyed, upRev, uikit, page, inputs, timers>>
    /\ UNCHANGED storeVars
    /\ UNCHANGED deleteVars

\* The constructor: #initField of the one configured field.
Construct(c, attaches) ==
    /\ ~uhist.constructed
    /\ utasks[c].pc = "idle"
    /\ IF page.typeField
       THEN Begin(c, ui.selector, ui,
                  [uhist EXCEPT !.constructed = TRUE, !.calls = @ + 1],
                  attaches, TRUE)
       ELSE /\ uhist' = [uhist EXCEPT !.constructed = TRUE]
            /\ UNCHANGED <<utasks, ui, uploadInstances, live>>
            /\ DisplayFrom(DisplaysAtConstruction(upRev) /\ ShowsDisplay, <<>>)
    /\ UNCHANGED <<boot, keyed, upRev, uikit, page, inputs, timers>>
    /\ UNCHANGED storeVars
    /\ UNCHANGED deleteVars

\* The user picks a type: the change listener calls initializeUpload().
ChangeType(c, guid, attaches) ==
    /\ uhist.constructed
    /\ page.typeField
    /\ uhist.calls < MaxUpload
    /\ utasks[c].pc \in {"idle", "done"}
    /\ Begin(c, guid, [ui EXCEPT !.selector = guid],
             [uhist EXCEPT !.calls = @ + 1], attaches, FALSE)
    /\ UNCHANGED <<boot, keyed, upRev, uikit, page, inputs, timers>>
    /\ UNCHANGED storeVars
    /\ UNCHANGED deleteVars

\* The store's fetch settles.  The store swallows a failure, init() resolves
\* and #initUpload runs to its end in the same turn.
UploadFetchSettle(c, outcome, attaches) ==
    /\ utasks[c].pc = "fetch"
    /\ IF outcome = "ok"
       THEN /\ utasks' = [utasks EXCEPT ![c].pc = "json", ![c].net = outcome]
            /\ UNCHANGED <<ui, uploadInstances, live, uhist>>
            /\ UNCHANGED displayVars
       ELSE /\ InitUploadTail(c, [utasks[c] EXCEPT !.net = outcome], data, ui, uhist, attaches)
            /\ StepDisplay(FALSE, TRUE, data,
                           CallKey(utasks[c].id, utasks[c].typeGuid))
    /\ UNCHANGED <<boot, keyed, upRev, uikit, page, inputs, timers>>
    /\ UNCHANGED storeVars
    /\ UNCHANGED deleteVars

\* response.json() settles, the store's init() runs to its end and
\* #initUpload after it.
UploadJsonSettle(c, body, attaches) ==
    /\ utasks[c].pc = "json"
    /\ LET call == CallKey(utasks[c].id, utasks[c].typeGuid)
           d == InitResult(data, call, body).data
       IN  /\ data' = d
           /\ InitUploadTail(c, [utasks[c] EXCEPT !.answer = body], d, ui, uhist, attaches)
           /\ StepDisplay(FALSE, TRUE, d, call)
    /\ UNCHANGED <<boot, keyed, upRev, uikit, page, inputs, timers>>
    /\ UNCHANGED <<mcalls, mstat, got>>
    /\ UNCHANGED deleteVars

MaxBatch == 1       \* batch-completion callbacks in one behaviour

\* The callbacks of an upload that touch the elements of the page.
UploadCallbacks == {"loadStart", "progress", "loadEnd", "complete", "error"}

\* The callbacks that are given a progress event, and the events: nothing
\* sent yet, all of it sent.
BarCallbacks == {"loadStart", "progress", "loadEnd"}
BarEvents == {[total |-> 8, loaded |-> 0], [total |-> 8, loaded |-> 8]}
EventsOf(callback) == IF callback \in BarCallbacks THEN BarEvents ELSE {NoEvent}

\* The event an upload starts with.
StartEvent(callback) ==
    IF callback \in BarCallbacks THEN [total |-> 8, loaded |-> 0] ELSE NoEvent

\* The element a callback works on.
ElementOf(callback) ==
    IF callback \in BarCallbacks THEN "progress"
    ELSE IF callback = "complete" THEN "success"
    ELSE "error"

\* removeAttribute('hidden'): in loadStart, complete and error.
Unhides(callback) == callback \in {"loadStart", "complete", "error"}

\* A progress callback that leaves the bar's numbers alone.
BarAfterKept(bar, callback, e) == bar

\* progressBar.max = e.total; progressBar.value = e.loaded
BarAfter(bar, callback, e) ==
    IF callback \in BarCallbacks THEN [max |-> e.total, value |-> e.loaded] ELSE bar

\* textContent of the success and error elements.
MessageOf(callback) ==
    IF callback = "complete" THEN "Upload completed successfully." ELSE "Upload failed."

\* What a callback dispatches and notifies: the event of its name, and in
\* UploadFile the notification of a completion that has no success element.
CallbackTrace(rev, callback, el) ==
    (IF DispatchesEvents(rev) THEN <<UploadEvent(callback)>> ELSE <<>>)
    \o (IF rev = UploadFile3 /\ callback = "complete" /\ "success" \notin el
        THEN <<Did("notify", "primary", MessageOf(callback))>> ELSE <<>>)

\* loadStart, progress, loadEnd, complete and error of the component h, on
\* the element the callback was bound to when it exists.
UploadCallback(h, callback, e) ==
    /\ h \in live["f1"]
    /\ uhist' = [uhist EXCEPT
            !.shown = @ \/ (Unhides(callback) /\ ElementOf(callback) \in page.elements),
            !.last = [callback |-> callback, event |-> e,
                      trace |-> CallbackTrace(upRev, callback, page.elements)]]
    /\ IF ElementOf(callback) \in page.elements
       THEN ui' = [ui EXCEPT
                !.hidden[ElementOf(callback)] = IF Unhides(callback) THEN FALSE ELSE @,
                !.bar = BarAfter(@, callback, e),
                !.text = [x \in DOMAIN @ |->
                            IF x = ElementOf(callback) /\ callback \notin BarCallbacks
                            THEN MessageOf(callback) ELSE @[x]]]
       ELSE UNCHANGED ui
    /\ UNCHANGED <<boot, keyed, upRev, uikit, page, inputs, timers, utasks, uploadInstances, live>>
    /\ UNCHANGED storeVars
    /\ UNCHANGED notUpload

\* A pre-send callback that adds its values to the params it finds.
ParamsAfterMerged(found, fresh) ==
    [given |-> TRUE, entries |-> found.entries \o fresh]

\* environment.data.params = getParams(...)
ParamsAfter(found, fresh) == [given |-> TRUE, entries |-> fresh]

\* beforeSend of the component h, given the environment of the request.
UploadBeforeSend(h, payload) ==
    /\ h \in live["f1"]
    /\ LET fresh == getParams(get(data, uhist.keys[h], "param_fields", Undefined).v, inputs)
           events(name) == IF DispatchesEvents(upRev) THEN <<UploadEvent(name)>> ELSE <<>>
       IN  uhist' = [uhist EXCEPT
                !.last = [callback |-> "beforeSend", event |-> NoEvent,
                          trace |-> events("beforeSend")
                                    \o <<Did("assign", "environment.data.params", "getParams")>>
                                    \o events("afterSendPreparation")],
                !.request = [before |-> payload,
                             after |-> [payload EXCEPT
                                            !.params = ParamsAfter(@, fresh)]]]
    /\ UNCHANGED <<boot, keyed, upRev, uikit, page, ui, inputs, timers, utasks,
                   uploadInstances, live>>
    /\ UNCHANGED storeVars
    /\ UNCHANGED notUpload

\* if (progressBar) { setTimeout(...) }
SetsTimer(el) == "progress" \in el

\* completeAll of the component h: the timer, then #setupDisplayArea with
\* the parameters read now.
UploadCompleteAll(h) ==
    /\ h \in live["f1"]
    /\ uhist.batches < MaxBatch
    /\ timers' = IF SetsTimer(page.elements) THEN timers + 1 ELSE timers
    /\ uhist' = [uhist EXCEPT
            !.batches = @ + 1, !.shown = FALSE,
            !.last = [callback |-> "completeAll", event |-> NoEvent,
                      trace |-> IF DispatchesEvents(upRev)
                                THEN <<UploadEvent("completeAll")>> ELSE <<>>]]
    /\ DisplayFrom(ShowsDisplay,
            getParams(get(data, uhist.keys[h], "display_fields", Null).v, inputs))
    /\ UNCHANGED <<boot, keyed, upRev, uikit, page, ui, inputs, utasks, uploadInstances, live>>
    /\ UNCHANGED storeVars
    /\ UNCHANGED deleteVars

\* A timer whose callback does nothing once a new upload has shown an
\* element.
TimerHidesUnlessShown(rev, el) ==
    IF uhist.shown THEN {} ELSE {"progress", "success", "error"}

\* The elements the timer's callback hides.  The first UikitUploader hides
\* the success element under if (errorMessage).
TimerHides(rev, el) ==
    IF rev = UikitUploader1
    THEN {"progress"} \cup (IF "error" \in el THEN {"success", "error"} ELSE {})
    ELSE {"progress", "success", "error"}

\* successMessage.setAttribute(...) on null, in the first UikitUploader.
TimerThrows(rev, el) ==
    rev = UikitUploader1 /\ "error" \in el /\ "success" \notin el

\* The delay has elapsed: the callback given to setTimeout runs.
TimerFire ==
    /\ timers > 0
    /\ timers' = timers - 1
    /\ ui' = [ui EXCEPT !.hidden = [e \in DOMAIN @ |->
                IF /\ e \in page.elements
                   /\ e \in TimerHides(upRev, page.elements)
                   /\ ~(e = "error" /\ TimerThrows(upRev, page.elements))
                THEN TRUE ELSE @[e]]]
    /\ uhist' = [uhist EXCEPT !.uncaught = @ \/ TimerThrows(upRev, page.elements)]
    /\ UNCHANGED <<boot, keyed, upRev, uikit, page, inputs, utasks, uploadInstances, live>>
    /\ UNCHANGED storeVars
    /\ UNCHANGED notUpload

\* The user edits a parameter field of the page.
EditInput(p, v) ==
    /\ inputs[p] \notin {"missing", v}
    /\ inputs' = [inputs EXCEPT ![p] = v]
    /\ UNCHANGED <<boot, keyed, upRev, uikit, page, ui, timers, utasks, uploadInstances, live, uhist>>
    /\ UNCHANGED storeVars
    /\ UNCHANGED notUpload

\* The lowest slot that can take a new initializeUpload() call.
FreeUploadSlot ==
    LET free == {c \in USlots : utasks[c].pc \in {"idle", "done"}}
    IN  IF free # {} THEN {CHOOSE c \in free : \A o \in free : c <= o} ELSE {}

\* The constructor, the type selector and the metadata fetches.
UploadNext ==
    \/ \E a \in BOOLEAN : Construct(1, a)
    \/ \E c \in FreeUploadSlot, g \in TypeValues, a \in BOOLEAN : ChangeType(c, g, a)
    \/ \E c \in USlots, outcome \in {"reject", "notok", "ok"}, a \in BOOLEAN :
            UploadFetchSettle(c, outcome, a)
    \/ \E c \in USlots, body \in BatchBodies \cup {BadJson}, a \in BOOLEAN :
            UploadJsonSettle(c, body, a)

\* Some metadata request settles.
UploadSettles ==
    \/ \E c \in USlots, outcome \in {"reject", "ok"}, a \in BOOLEAN :
            UploadFetchSettle(c, outcome, a)
    \/ \E c \in USlots, body \in {FullAnswer, BadJson}, a \in BOOLEAN :
            UploadJsonSettle(c, body, a)

\* The constructor and the type selector, with requests that settle.
LiveNext ==
    \/ \E a \in BOOLEAN : Construct(1, a)
    \/ \E c \in FreeUploadSlot, g \in {Str(1), Str(2)}, a \in BOOLEAN :
            ChangeType(c, g, a)
    \/ UploadSettles

\* A page in use: one initialization, then uploads; the display's calls
\* stay suspended on the network.
BatchNext ==
    \/ Construct(1, TRUE)
    \/ \E outcome \in {"reject", "ok"} : UploadFetchSettle(1, outcome, TRUE)
    \/ \E body \in BatchBodies : UploadJsonSettle(1, body, TRUE)
    \/ \E h \in 1..MaxUpload, cb \in {"loadStart", "complete", "error"} :
            UploadCallback(h, cb, StartEvent(cb))
    \/ \E h \in 1..MaxUpload : UploadCompleteAll(h)
    \/ TimerFire
    \/ \E v \in InputValues : EditInput("p1", v)

\* The README's page with a display, or without its progress bar, its type
\* selected, before its constructor has run.
ProgressInit ==
    /\ upRev \in UploadRevisions
    /\ uikit = [replaces |-> TRUE]
    /\ page \in {[PlainPage EXCEPT !.displayEndpoint = TRUE, !.displayArea = TRUE],
                 [PlainPage EXCEPT !.elements = @ \ {"progress"}]}
    /\ ui = InitialUi(Str(2))
    /\ inputs = PlainInputs
    /\ timers = 0
    /\ utasks = [c \in USlots |-> IdleTask]
    /\ uploadInstances = [f \in UploadFields |-> NoHandle]
    /\ live = [f \in UploadFields |-> {}]
    /\ uhist = NoHistory

\* Initializations, and uploads with their progress events.
ProgressNext ==
    \/ Construct(1, TRUE)
    \/ \E c \in FreeUploadSlot : ChangeType(c, Str(36), TRUE)
    \/ \E c \in USlots : UploadFetchSettle(c, "ok", TRUE)
    \/ \E c \in USlots : UploadJsonSettle(c, FullAnswer, TRUE)
    \/ \E h \in 1..MaxUpload, cb \in UploadCallbacks :
            \E e \in EventsOf(cb) : UploadCallback(h, cb, e)
    \/ \E h \in 1..MaxUpload : UploadCompleteAll(h)
    \/ TimerFire

\* Any page with all its elements, with or without type selector, display
\* endpoint and display region, before its constructor has run; no type,
\* a one-character type or a type is selected.
FieldInit ==
    /\ upRev \in UploadRevisions
    /\ uikit = [replaces |-> TRUE]
    /\ page \in [typeField : BOOLEAN, elements : {ElementNames},
                  displayEndpoint : BOOLEAN, displayArea : BOOLEAN]
    /\ ui \in {InitialUi(g) : g \in {Str(0), Str(1), Str(2)}}
    /\ inputs = PlainInputs
    /\ timers = 0
    /\ utasks = [c \in USlots |-> IdleTask]
    /\ uploadInstances = [f \in UploadFields |-> NoHandle]
    /\ live = [f \in UploadFields |-> {}]
    /\ uhist = NoHistory

\* The constructor and the type selector, with the requests of the store
\* and of the display answered.
FieldNext ==
    \/ Construct(1, TRUE)
    \/ \E c \in FreeUploadSlot, g \in {Str(0), Str(2)} : ChangeType(c, g, TRUE)
    \/ \E c \in USlots : UploadFetchSettle(c, "ok", TRUE)
    \/ \E c \in USlots : UploadJsonSettle(c, FullAnswer, TRUE)
    \/ \E d \in DSlots, outcome \in {"notok", "ok"} : DisplayFetchSettle(d, outcome)
    \/ \E d \in DSlots, x \in {"", "<p>x</p>"} :
            DisplayJsonSettle(d, [kind |-> "json", d |-> x, err |-> "absent"])

\* A record that names both parameter fields in param_fields.
SendRecord == [FullRecord EXCEPT !["param_fields"] = "[p1,p2]"]

\* The metadata answers of the pages that send: records that name one or
\* both parameter fields, and one that names none.
SendBodies ==
    {[kind |-> "json", d |-> "object", obj |-> o, err |-> "absent"] :
        o \in {FullRecord, SendRecord, EmptyObject}}

\* The README's page, with or without the second parameter field, its
\* type selected, before its constructor has run.
SendInit ==
    /\ upRev \in UploadRevisions
    /\ uikit = [replaces |-> TRUE]
    /\ page = PlainPage
    /\ ui = InitialUi(Str(2))
    /\ inputs \in {PlainInputs, [PlainInputs EXCEPT !["p2"] = "missing"]}
    /\ timers = 0
    /\ utasks = [c \in USlots |-> IdleTask]
    /\ uploadInstances = [f \in UploadFields |-> NoHandle]
    /\ live = [f \in UploadFields |-> {}]
    /\ uhist = NoHistory

\* One initialization, then requests and edits of the parameter fields.
SendNext ==
    \/ Construct(1, TRUE)
    \/ UploadFetchSettle(1, "ok", TRUE)
    \/ \E body \in SendBodies : UploadJsonSettle(1, body, TRUE)
    \/ \E h \in 1..MaxUpload, payload \in Payloads : UploadBeforeSend(h, payload)
    \/ \E p \in InputNames, v \in InputValues : EditInput(p, v)

-----------------------------------------------------------------------------
(* The composite keys of the store, with the field ids and the type values *)
(* as the strings they are.                                                *)

MaxKeyed == 2       \* initializations whose key is followed

\* Strings over two characters.
Chars == {"a", "b"}
StringsOf(n) == UNION {[1..k -> Chars] : k \in 1..n}

\* The ids a configured field can have, and the values of a type selector.
KeyIds == StringsOf(2)
KeyTypes == StringsOf(3)

\* const call = `${id}${typeGuid}`
Call(id, typeGuid) == id \o typeGuid

\* A page with two fields, before any type is selected.
KeyedInit ==
    keyed \in [fields : {s \in SUBSET KeyIds : Cardinality(s) = 2}, made : {{}}]

\* The keys while another component is exercised.
KeyedIdle == keyed = [fields |-> {}, made |-> {}]

\* initializeUpload(typeGuid) of the field id: the key under which the
\* record fetched for (id, typeGuid) is stored.
KeyedInitialize(id, typeGuid) ==
    /\ Cardinality(keyed.made) < MaxKeyed
    /\ id \in keyed.fields
    /\ TypeSelected(Str(Len(typeGuid)))
    /\ keyed' = [keyed EXCEPT !.made =
            @ \cup {[id |-> id, typeGuid |-> typeGuid, key |-> Call(id, typeGuid)]}]
    /\ UNCHANGED storeVars
    /\ UNCHANGED <<boot, upRev, uikit, page, ui, inputs, timers, utasks,
                   uploadInstances, live, uhist>>
    /\ UNCHANGED notUpload

KeyedNext == \E id \in KeyIds, typeGuid \in KeyTypes : KeyedInitialize(id, typeGuid)

-----------------------------------------------------------------------------
(* The bootstrap: the DOMContentLoaded handler that configures the fields   *)
(* of the page, and the global entry point VDMDeleteFile.                   *)

MaxBoot == 2        \* calls of VDMDeleteFile and type changes in one behaviour

\* What the bootstrap and the global entry point leave alone: the
\* components are followed in their own sections.
notBoot == <<storeVars, displayVars, deleteVars, keyed, upRev, uikit, page, ui,
             inputs, timers, utasks, uploadInstances, live, uhist>>

\* The ids the elements of the page and the configuration can have.
BootIds == {"a", "b"}

\* querySelectorAll('.' + target_class): the elements of the target class,
\* in document order.
BootOrders == {<<>>, <<"b">>, <<"a", "b">>, <<"b", "a">>}

\* The type selector a field names: missing, or with its value.
NoSelector == [t |-> "missing", len |-> 0]
BootSelectors == {NoSelector, Str(0), Str(2)}

\* global.VDM.uikit.config: the two required entries and, per field id,
\* whether an upload and a delete endpoint are given.
BootConfigs ==
    [endpoint_type : BOOLEAN, target_class : BOOLEAN,
     fields : [BootIds -> [endpoint_upload : BOOLEAN, endpoint_delete : BOOLEAN]]]

\* The page before DOMContentLoaded.  vdm says that global.VDM is defined,
\* registry.exists that delete_file is an object, registry.of names the ids
\* it holds a DeleteFile for; wired are the fields whose selector has the
\* change listener, pending the initializations that await their metadata,
\* attached those that attached an upload component.
BootStart(vdm, config, elements, selector, registry) ==
    [vdm |-> vdm, config |-> config, elements |-> elements, selector |-> selector,
     registry |-> [exists |-> registry, of |-> {}],
     loaded |-> FALSE, orchestrators |-> 0, fields |-> <<>>, wired |-> {},
     pending |-> {}, attached |-> {}, flows |-> {}, errors |-> {}, calls |-> 0,
     asked |-> [id |-> "", guid |-> Str(0)]]

\* A page that sets global.VDM with its configuration, or leaves it out.
BootInit ==
    boot \in {BootStart(TRUE, c, e, s, r) :
                c \in BootConfigs, e \in BootOrders,
                s \in [BootIds -> BootSelectors], r \in BOOLEAN}
              \cup {BootStart(FALSE, c, <<"a", "b">>, [i \in BootIds |-> Str(2)], FALSE) :
                        c \in BootConfigs}

\* The bootstrap while another component is exercised.
BootIdle ==
    boot = BootStart(FALSE,
                     [endpoint_type |-> FALSE, target_class |-> FALSE,
                      fields |-> [i \in BootIds |->
                            [endpoint_upload |-> FALSE, endpoint_delete |-> FALSE]]],
                     <<>>, [i \in BootIds |-> NoSelector], FALSE)

BootError(kind, id) == [kind |-> kind, id |-> id]

\* A loop that ends at the first element without an upload endpoint.
RECURSIVE ConfigureStopping(_, _, _)
ConfigureStopping(elements, fields, sofar) ==
    IF elements = <<>> THEN sofar
    ELSE LET id == Head(elements)
         IN  IF ~fields[id].endpoint_upload
             THEN [sofar EXCEPT !.errors = @ \cup {BootError("upload endpoint", id)}]
             ELSE ConfigureStopping(Tail(elements), fields,
                    [config |-> IF \E i \in 1..Len(sofar.config) : sofar.config[i] = id
                                THEN sofar.config ELSE Append(sofar.config, id),
                     deleters |-> IF fields[id].endpoint_delete
                                  THEN sofar.deleters \cup {id} ELSE sofar.deleters,
                     errors |-> sofar.errors])

\* A loop that makes the deleter of an element before it looks for the
\* element's upload endpoint.
RECURSIVE ConfigureDeleterFirst(_, _, _)
ConfigureDeleterFirst(elements, fields, sofar) ==
    IF elements = <<>> THEN sofar
    ELSE LET id == Head(elements)
             known == \E i \in 1..Len(sofar.config) : sofar.config[i] = id
         IN  ConfigureDeleterFirst(Tail(elements), fields,
                [config |-> IF fields[id].endpoint_upload /\ ~known
                            THEN Append(sofar.config, id) ELSE sofar.config,
                 deleters |-> IF fields[id].endpoint_delete
                              THEN sofar.deleters \cup {id} ELSE sofar.deleters,
                 errors |-> IF fields[id].endpoint_upload THEN sofar.errors
                            ELSE sofar.errors \cup {BootError("upload endpoint", id)}])

\* uploadElements.forEach: an element without an upload endpoint is left
\* out; the others get their entry in config and, with a delete endpoint,
\* their DeleteFile in the registry.
RECURSIVE Configure(_, _, _)
Configure(elements, fields, sofar) ==
    IF elements = <<>> THEN sofar
    ELSE LET id == Head(elements)
         IN  Configure(Tail(elements), fields,
                IF ~fields[id].endpoint_upload
                THEN [sofar EXCEPT !.errors = @ \cup {BootError("upload endpoint", id)}]
                ELSE [config |-> IF \E i \in 1..Len(sofar.config) : sofar.config[i] = id
                                 THEN sofar.config ELSE Append(sofar.config, id),
                      deleters |-> IF fields[id].endpoint_delete
                                   THEN sofar.deleters \cup {id} ELSE sofar.deleters,
                      errors |-> sofar.errors])

\* An #initField that stops the constructor at the first field whose type
\* selector is missing.
RECURSIVE InitFieldsUntilMissing(_, _, _)
InitFieldsUntilMissing(ids, selector, sofar) ==
    IF ids = <<>> THEN sofar
    ELSE LET id == Head(ids)
         IN  IF selector[id] = NoSelector
             THEN [sofar EXCEPT !.errors = @ \cup {BootError("type field", id)}]
             ELSE InitFieldsUntilMissing(Tail(ids), selector,
                    [sofar EXCEPT
                        !.wired = @ \cup {id},
                        !.pending = IF TypeSelected(selector[id])
                                    THEN @ \cup {[id |-> id, guid |-> selector[id]]}
                                    ELSE @])

\* #initializeFields: #initField of each entry of config, in the order of
\* its keys.  A field whose type selector is missing is logged and left;
\* the others get the change listener and their first initializeUpload().
RECURSIVE InitFields(_, _, _)
InitFields(ids, selector, sofar) ==
    IF ids = <<>> THEN sofar
    ELSE LET id == Head(ids)
         IN  InitFields(Tail(ids), selector,
                IF selector[id] = NoSelector
                THEN [sofar EXCEPT !.errors = @ \cup {BootError("type field", id)}]
                ELSE [sofar EXCEPT
                        !.wired = @ \cup {id},
                        !.pending = IF TypeSelected(selector[id])
                                    THEN @ \cup {[id |-> id, guid |-> selector[id]]}
                                    ELSE @])

\* The DOMContentLoaded handler.
Bootstrap ==
    /\ ~boot.loaded
    /\ boot' =
        IF ~boot.vdm
        THEN [boot EXCEPT !.loaded = TRUE, !.errors = @ \cup {BootError("VDM", "")}]
        ELSE IF ~boot.config.endpoint_type
        THEN [boot EXCEPT !.loaded = TRUE, !.errors = @ \cup {BootError("type endpoint", "")}]
        ELSE IF ~boot.config.target_class
        THEN [boot EXCEPT !.loaded = TRUE, !.errors = @ \cup {BootError("target class", "")}]
        ELSE LET made == Configure(boot.elements, boot.config.fields,
                            [config |-> <<>>, deleters |-> {}, errors |-> boot.errors])
                 inited == InitFields(made.config, boot.selector,
                            [wired |-> {}, pending |-> {}, errors |-> made.errors])
             IN  [boot EXCEPT
                    !.loaded = TRUE,
                    !.registry = [exists |-> TRUE, of |-> made.deleters],
                    !.fields = made.config,
                    !.orchestrators = IF Len(made.config) > 0 THEN @ + 1 ELSE @,
                    !.wired = inited.wired,
                    !.pending = inited.pending,
                    !.errors = inited.errors]
    /\ UNCHANGED notBoot

\* The user changes the type selector of a field: the listener, when the
\* field has one, calls initializeUpload(typeField.value).
BootChange(id, v) ==
    /\ boot.calls < MaxBoot
    /\ boot.selector[id] \notin {NoSelector, v}
    /\ boot' = [boot EXCEPT
            !.calls = @ + 1,
            !.selector[id] = v,
            !.pending = IF id \in boot.wired /\ TypeSelected(v)
                        THEN @ \cup {[id |-> id, guid |-> v]} ELSE @]
    /\ UNCHANGED notBoot

\* The metadata of an initialization has settled: #initUpload attaches the
\* upload component of its field.
BootAttach(p) ==
    /\ p \in boot.pending
    /\ boot' = [boot EXCEPT !.pending = @ \ {p}, !.attached = @ \cup {p}]
    /\ UNCHANGED notBoot

\* The guids VDMDeleteFile is called with: one the deleter takes, one it
\* ignores.
BootGuids == {Str(GuidLengthLimit + 6), Str(1)}

\* VDMDeleteFile(id, guid): delete(guid) of the registered DeleteFile, which
\* returns at its guard or opens the confirmation dialog; a TypeError when
\* there is no registry to look into.
GlobalDelete(id, guid) ==
    /\ boot.calls < MaxBoot
    /\ boot' = [boot EXCEPT
            !.calls = @ + 1,
            !.asked = [id |-> id, guid |-> guid],
            !.flows = IF boot.vdm /\ boot.registry.exists /\ id \in boot.registry.of
                      THEN @ \cup {[deleter |-> id, guid |-> guid,
                                    prompt |-> ~DeleteIgnores(guid)]}
                      ELSE @,
            !.errors = IF ~boot.vdm \/ ~boot.registry.exists
                       THEN @ \cup {BootError("TypeError", id)}
                       ELSE IF id \notin boot.registry.of
                       THEN @ \cup {BootError("delete_file", id)}
                       ELSE @]
    /\ UNCHANGED notBoot

BootNext ==
    \/ Bootstrap
    \/ \E id \in BootIds, v \in {Str(1), Str(2), Str(36)} : BootChange(id, v)
    \/ \E p \in boot.pending : BootAttach(p)
    \/ \E id \in BootIds, guid \in BootGuids : GlobalDelete(id, guid)

-----------------------------------------------------------------------------
(* Specifications: one per component, the other components at rest.        *)

\* The page with only the store in use.
InitStore == StoreInit /\ DisplayIdle /\ DeleteIdle /\ UploadIdle /\ KeyedIdle /\ BootIdle

\* The page with only the fragment display in use, in any revision.
InitDisplay == StoreInit /\ DisplayInit /\ DeleteIdle /\ UploadIdle /\ KeyedIdle /\ BootIdle

\* The page with only the file deleter in use.
InitDelete == StoreInit /\ DisplayIdle /\ DeleteInit /\ UploadIdle /\ KeyedIdle /\ BootIdle

\* The page with the upload orchestrator in use, in any of its revisions.
InitUpload == StoreInit /\ DisplayIdle /\ DeleteIdle /\ UploadInit /\ KeyedIdle /\ BootIdle

\* A page in use: the display is the one the orchestrator constructs.
InitBatch ==
    /\ StoreInit
    /\ DeleteIdle
    /\ BatchInit
    /\ KeyedIdle /\ BootIdle
    /\ dispRev = DisplayOf(upRev)
    /\ area = [r \in Regions |-> [content |-> "", hidden |-> TRUE]]
    /\ dcalls = [c \in DSlots |-> IdleDisplay]
    /\ dhist = [n |-> 0, touched |-> [r \in Regions |-> FALSE]]

SpecStore == InitStore /\ [][StoreNext]_vars

SpecAccess == InitStore /\ [][AccessNext]_vars

SpecDisplay == InitDisplay /\ [][DisplayNext]_vars

SpecDelete == InitDelete /\ [][DeleteNext]_vars

SpecUpload == InitUpload /\ [][UploadNext]_vars

SpecBatch == InitBatch /\ [][BatchNext]_vars

\* The README's page: uploads and their progress events.
InitProgress ==
    /\ StoreInit
    /\ DeleteIdle
    /\ ProgressInit
    /\ KeyedIdle /\ BootIdle
    /\ dispRev = DisplayOf(upRev)
    /\ area = [r \in Regions |-> [content |-> "", hidden |-> TRUE]]
    /\ dcalls = [c \in DSlots |-> IdleDisplay]
    /\ dhist = [n |-> 0, touched |-> [r \in Regions |-> FALSE]]

SpecProgress == InitProgress /\ [][ProgressNext]_vars

\* Any page at the construction of its orchestrator.
InitField ==
    /\ StoreInit
    /\ DeleteIdle
    /\ FieldInit
    /\ KeyedIdle /\ BootIdle
    /\ dispRev = DisplayOf(upRev)
    /\ area = [r \in Regions |-> [content |-> "", hidden |-> TRUE]]
    /\ dcalls = [c \in DSlots |-> IdleDisplay]
    /\ dhist = [n |-> 0, touched |-> [r \in Regions |-> FALSE]]

SpecField == InitField /\ [][FieldNext]_vars

\* The README's page: requests and their pre-send callbacks.
InitSend == StoreInit /\ DisplayIdle /\ DeleteIdle /\ SendInit /\ KeyedIdle /\ BootIdle

SpecSend == InitSend /\ [][SendNext]_vars

\* The browser settles every request: a pending fetch and a pending
\* response.json() are not left pending for ever.
SpecLive == InitUpload /\ [][LiveNext]_vars /\ WF_vars(UploadSettles)

\* Two fields and the keys of their initializations.
InitKeys == StoreInit /\ DisplayIdle /\ DeleteIdle /\ UploadIdle /\ KeyedInit /\ BootIdle

SpecKeys == InitKeys /\ [][KeyedNext]_vars

\* The page at load: the components at rest, the bootstrap and the global
\* entry point in use.
InitBoot == StoreInit /\ DisplayIdle /\ DeleteIdle /\ UploadIdle /\ KeyedIdle /\ BootInit

SpecBoot == InitBoot /\ [][BootNext]_vars

-----------------------------------------------------------------------------
(* Claims about the metadata store.                                        *)

\* The init() calls made for key k so far were all made without reset, one
\* after the other (none while another was suspended), and all have returned.
SequentialNoReset(k, n) ==
    /\ mstat[k].calls[FALSE] = n
    /\ mstat[k].calls[TRUE] = 0
    /\ ~mstat[k].overlap
    /\ Pending(k) = {}

\* C2 as stated: for any key, two init() calls in sequence without reset
\* perform exactly one fetch, and every init() call with reset = true
\* performs one fetch.
C2_TwoCallsOneFetch ==
    \A k \in Keys :
        /\ SequentialNoReset(k, 2) => mstat[k].fetches[FALSE] = 1
        /\ mstat[k].fetches[TRUE] = mstat[k].calls[TRUE]

\* C2 amended: an init() call without reset issues a fetch exactly when the
\* key has no record at the time of the call, so two calls in sequence issue
\* one fetch when the first one stored a record and two when it did not;
\* every init() call with reset = true issues one fetch.
C2_FetchIffNoRecord ==
    \A k \in Keys :
        /\ mstat[k].fetches[FALSE] = mstat[k].norec
        /\ mstat[k].fetches[TRUE] = mstat[k].calls[TRUE]
        /\ SequentialNoReset(k, 2) =>
                mstat[k].fetches[FALSE] = (IF data[k].exists /\ mstat[k].norec = 1 THEN 1 ELSE 2)

\* C2 witness: two init() calls in sequence without reset, the second of
\* which found the record of the first and did not fetch.
C2_Witness ==
    \E k \in Keys :
        /\ SequentialNoReset(k, 2)
        /\ mstat[k].norec = 1
        /\ mstat[k].fetches[FALSE] = 1
        /\ data[k].exists

\* C3 as stated: over any interleaving of init() calls without reset for one
\* key, at most one fetch is issued for that key.
C3_AtMostOneFetch ==
    \A k \in Keys : mstat[k].calls[TRUE] = 0 => mstat[k].fetches[FALSE] <= 1

\* C3 amended: once a record exists for a key, no init() call without reset
\* issues a fetch for it; until then every such call issues its own fetch
\* (also a call made while an earlier fetch is pending or after one failed).
C3_NoFetchOnceRecorded ==
    [][\A k \in Keys :
          /\ data[k].exists => mstat'[k].fetches[FALSE] = mstat[k].fetches[FALSE]
          /\ (~data[k].exists /\ mstat'[k].calls[FALSE] = mstat[k].calls[FALSE] + 1)
                => mstat'[k].fetches[FALSE] = mstat[k].fetches[FALSE] + 1]_vars

\* C3 witness: a call without reset was made while the key had a record, and
\* before that two calls without reset each issued a fetch.
C3_Witness ==
    \E k \in Keys :
        /\ data[k].exists
        /\ mstat[k].calls[TRUE] = 0
        /\ mstat[k].fetches[FALSE] = 2
        /\ mstat[k].calls[FALSE] = 3

\* What C4 says get() returns.
ClaimedGet(rec, key, defaultValue) ==
    IF ~rec.exists THEN Val(defaultValue)
    ELSE IF key = Null THEN Obj(rec.f)
    ELSE IF rec.f[key] # Undefined THEN Val(rec.f[key])
    ELSE Val(defaultValue)

\* C4 as stated: get(key, field, default) returns default when the key has no
\* record or the record lacks the field, the stored value of every stored
\* field whatever it is, and the whole record when the field is omitted.
C4_GetReturnsStored ==
    got.op = "get" => got.result = ClaimedGet(got.rec, got.arg.k, got.v)

\* C5: set(key, x, v) creates the record of key if absent, merges an object
\* x into it (the other entries keep their values), sets only field x when x
\* is a field name, and leaves the record of every other key unchanged.
C5_SetMerges ==
    [][(got'.op = "set" /\ got'.n = got.n + 1) =>
          LET id == got'.id
              a == got'.arg
          IN  /\ data'[id].exists
              /\ \A k \in Keys \ {id} : data'[k] = data[k]
              /\ a.t = "object" =>
                    \A f \in Fields :
                        data'[id].f[f] = (IF f \in OwnKeys(a.o) THEN a.o[f] ELSE data[id].f[f])
              /\ a.t = "key" =>
                    \A f \in Fields :
                        data'[id].f[f] = (IF f = a.k THEN got'.v ELSE data[id].f[f])]_vars

\* C5 witness: an object was merged into a record that had an entry the
\* object does not name, next to a key whose record exists.
C5_Witness ==
    /\ got.op = "set"
    /\ got.arg.t = "object"
    /\ got.rec.exists
    /\ OwnKeys(got.arg.o) # {}
    /\ \E f \in OwnKeys(got.rec.f) \ OwnKeys(got.arg.o) : data[got.id].f[f] = got.rec.f[f]
    /\ \E k \in Keys \ {got.id} : data[k].exists

-----------------------------------------------------------------------------
(* Claims about the fragment display.                                      *)

\* The two states of a region the display is meant to leave it in.
Consistent(a) ==
    \/ a.hidden /\ a.content = ""
    \/ ~a.hidden /\ a.content \in DataStrings /\ Trim(a.content) # ""

\* C6 as stated: once a set call has written to a region, the region is
\* either (content = response data, not hidden) or (empty, hidden), now and at
\* each event dispatched from then on; this fails for the first DisplayHelper.
C6_NoPartialState ==
    /\ \A r \in Regions : dhist.touched[r] => Consistent(area[r])
    /\ \A c \in DSlots : \A i \in 1..Len(dcalls[c].trace) :
            LET e == dcalls[c].trace[i]
            IN  (e.kind = "event" /\ e.t) => Consistent(e.a)

\* A response that succeeded: OK status, a JSON object without error field
\* whose data, when present, is a string.
SuccessBody(s) ==
    /\ s.ok
    /\ s.body.kind = "json"
    /\ s.body.err = "absent"
    /\ s.body.d \in DataStrings \cup {Null, Undefined}

ClaimedBlank(d) == d \in {Null, Undefined} \/ Trim(d) = ""

\* What a finished call did after it issued its request.
AfterRequest(s) ==
    LET i == CHOOSE j \in 1..Len(s.trace) : s.trace[j].kind = "fetch"
    IN  SubSeq(s.trace, i + 1, Len(s.trace))

NamesOf(entries) == [i \in 1..Len(entries) |-> entries[i].name]

\* C7: in the revisions that notify (Display 3.0.0, DisplayHelper 2.1.0), a
\* successful response with absent or blank data dispatches
\* beforeHideFilesDisplay, then empties and hides the region, then dispatches
\* afterHideFilesDisplay; any other data dispatches beforeFilesDisplay, then
\* sets the content to data and un-hides, then dispatches afterFilesDisplay;
\* the call dispatches exactly that one pair.
C7_EventOrdering ==
    \A c \in DSlots :
        LET s == dcalls[c]
            did == AfterRequest(s)
        IN  (dispRev \in {DisplayHelper2, Display3} /\ s.pc = "done" /\ SuccessBody(s)) =>
                /\ Len(did) = 4
                /\ did[1].kind = "event" /\ did[4].kind = "event"
                /\ did[2].kind = "dom" /\ did[3].kind = "dom"
                /\ did[1].ns = DisplayNamespace(dispRev)
                /\ did[4].ns = DisplayNamespace(dispRev)
                /\ IF ClaimedBlank(s.body.d)
                   THEN /\ NamesOf(did) = <<"beforeHideFilesDisplay", "innerHTML",
                                            "setAttribute", "afterHideFilesDisplay">>
                        /\ did[2].a = [did[1].a EXCEPT !.content = ""]
                        /\ did[3].a = [content |-> "", hidden |-> TRUE]
                        /\ did[4].a = did[3].a
                   ELSE /\ NamesOf(did) = <<"beforeFilesDisplay", "innerHTML",
                                            "removeAttribute", "afterFilesDisplay">>
                        /\ did[2].a = [did[1].a EXCEPT !.content = s.body.d]
                        /\ did[3].a = [content |-> s.body.d, hidden |-> FALSE]
                        /\ did[4].a = did[3].a

C7_Witness ==
    \E c, o \in DSlots :
        /\ dispRev = Display3
        /\ dcalls[c].pc = "done" /\ SuccessBody(dcalls[c])
        /\ dcalls[c].body.d = "   "
        /\ dcalls[o].pc = "done" /\ SuccessBody(dcalls[o])
        /\ dcalls[o].body.d = " <p>y</p> "
        /\ area[dcalls[o].region] = [content |-> " <p>y</p> ", hidden |-> FALSE]

\* C8 as stated: Display.set dispatches beforeGetFilesDisplay before it
\* issues the request, and a non-OK status or an {error} body ends the call
\* with no write to the region and no hide or display event; the 2.1.0
\* DisplayHelper dispatches no beforeGetFilesDisplay.
C8_FailureLeavesRegion ==
    \A c \in DSlots :
        LET s == dcalls[c]
        IN  (dispRev \in {DisplayHelper2, Display3} /\ s.pc # "idle") =>
                /\ Len(s.trace) >= 2
                /\ s.trace[1].kind = "event"
                /\ s.trace[1].name = "beforeGetFilesDisplay"
                /\ s.trace[2].kind = "fetch"
                /\ (s.pc = "done" /\ (~s.ok \/ (s.body.kind = "json" /\ s.body.err = "msg")))
                        => Len(s.trace) = 2

-----------------------------------------------------------------------------
(* Claims about the file deleter.                                          *)

\* C9: a delete(fileId) call with fileId absent, empty or of length 30 or
\* less ends at once having done nothing (no confirmation, event, request or
\* removal of a node); with a fileId of length 31 or more it prompts the
\* confirmation, and nothing else yet.
C9_ShortIdNoop ==
    [][\A c \in XSlots :
        dels'[c].no # dels[c].no =>
            LET g == dels'[c].guid
            IN  /\ nodes' = nodes
                /\ \A o \in XSlots \ {c} : dels'[o] = dels[o]
                /\ IF g.t # "string" \/ g.len = 0 \/ g.len <= 30
                   THEN dels'[c].pc = "done" /\ dels'[c].trace = <<>>
                   ELSE /\ g.len >= 31
                        /\ dels'[c].pc = "confirm"
                        /\ Len(dels'[c].trace) = 1
                        /\ dels'[c].trace[1].kind = "confirm"]_vars

C9_Witness ==
    \E c, o \in XSlots :
        /\ dels[c].guid = Str(30) /\ dels[c].pc = "done" /\ dels[c].trace = <<>>
        /\ dels[o].guid = Str(31) /\ dels[o].pc = "confirm"
        /\ Str(31) \in nodes
        /\ delEndpoint # NoEndpoint

\* C10 as stated: while the dialog of a call is open, and once the user has
\* declined it, the call has dispatched no event, issued no request, removed
\* no node and shown no notification, and the decline raised no error; the
\* last part fails when the dialog's promise is rejected, as delete() gives
\* it no rejection handler.
C10_OnlyAfterConfirm ==
    \A c \in XSlots :
        dels[c].pc \in {"confirm", "declined"} =>
            /\ Len(dels[c].trace) = 1
            /\ dels[c].trace[1].kind = "confirm"
            /\ ~dels[c].unhandled

\* The steps of a call in order: the name of each event, the kind of
\* anything else.
Steps(tr) ==
    [i \in 1..Len(tr) |-> IF tr[i].kind = "event" THEN tr[i].arg ELSE tr[i].kind]

\* The calls whose trace holds the removal of the list item of g.
Removers(g) ==
    {c \in XSlots : \E i \in 1..Len(dels[c].trace) :
        dels[c].trace[i].kind = "remove" /\ dels[c].trace[i].arg = g}

\* C11: a confirmed delete answered with {success} does, in this order:
\* beforeFileDelete, the GET with guid=<fileId>, beforeFileRemoveFromUI and the
\* removal of the list item with that id (both only if the document still has
\* the item), the primary notification with the success message, and
\* afterFileDelete carrying the response body; the item is removed once.
C11_SuccessOrder ==
    \A c \in XSlots :
        LET s == dels[c]
            tr == s.trace
            n == Len(tr)
        IN  (s.pc = "done" /\ s.answer.kind = "json" /\ s.answer.success # "absent") =>
                /\ Steps(tr) =
                      IF s.present
                      THEN <<"confirm", "beforeFileDelete", "fetch",
                             "beforeFileRemoveFromUI", "remove", "notify",
                             "afterFileDelete">>
                      ELSE <<"confirm", "beforeFileDelete", "fetch", "notify",
                             "afterFileDelete">>
                /\ tr[2].detail.guid = s.guid
                /\ tr[3].name = "GET" /\ tr[3].arg.params = <<"guid", s.guid>>
                /\ s.present => (tr[4].detail.guid = s.guid /\ tr[5].arg = s.guid)
                /\ tr[n - 1].name = "primary" /\ tr[n - 1].arg = s.answer.success
                /\ tr[n].detail = [guid |-> s.guid, data |-> s.answer]
                /\ s.guid \notin nodes
                /\ Cardinality(Removers(s.guid)) <= 1

C11_Witness ==
    \E c, o \in XSlots :
        /\ c # o /\ dels[c].guid = dels[o].guid
        /\ dels[c].pc = "done" /\ dels[c].answer.success = "msg" /\ dels[c].present
        /\ dels[o].pc = "done" /\ dels[o].answer.success = "msg" /\ ~dels[o].present
        /\ Len(dels[c].trace) = 7
        /\ nodes # {}

\* C12: when a confirmed delete is answered with {error}, the call dispatches
\* onFileDeleteError and shows the danger notification with the message, and
\* removes no list item and dispatches no afterFileDelete; when the request
\* fails or the body cannot be parsed, the call shows nothing, dispatches
\* nothing and removes no list item.
C12_ErrorHandling ==
    [][\A c \in XSlots :
        LET s == dels[c]
            e == dels'[c]
            added == SubSeq(e.trace, Len(s.trace) + 1, Len(e.trace))
        IN  /\ (/\ s.pc = "json" /\ e.pc = "done"
                /\ e.answer.kind = "json"
                /\ e.answer.success = "absent" /\ e.answer.error # "absent") =>
                    /\ nodes' = nodes
                    /\ Steps(added) = <<"onFileDeleteError", "notify">>
                    /\ added[1].detail = [guid |-> s.guid, data |-> e.answer]
                    /\ added[2].name = "danger"
                    /\ added[2].arg = e.answer.error
            /\ (\/ s.pc = "fetch" /\ e.pc = "done"
                \/ s.pc = "json" /\ e.pc = "done" /\ e.answer.kind = "bad") =>
                    /\ nodes' = nodes
                    /\ \A i \in 1..Len(added) :
                            added[i].kind \notin {"notify", "event", "remove"}]_vars

C12_Witness ==
    \E c, o \in XSlots :
        /\ dels[c].pc = "done" /\ dels[c].answer.kind = "json"
        /\ dels[c].answer.success = "absent" /\ dels[c].answer.error = "msg"
        /\ dels[c].guid \in nodes
        /\ dels[o].pc = "done" /\ dels[o].answer.kind = "bad"
        /\ dels[o].guid \in nodes

-----------------------------------------------------------------------------
(* Claims about the upload orchestrator.                                   *)

\* C1 as stated: every field has at most one live upload component at any
\* time; this fails where #initUpload attaches a component without destroying
\* the one before (3.0.0 bundle, source after 2.1.0) and UIkit's upload() does
\* not do it either.
C1_OneLiveHandle == \A f \in UploadFields : Cardinality(live[f]) <= 1

\* A type value that is absent, empty or one character long.
NoType(guid) == guid.t # "string" \/ guid.len <= 1

\* C13: initializeUpload() called with a type value that is absent, empty
\* or one character long does nothing: the call ends at once with no
\* beforeInit event and no metadata fetch, the store, the status elements
\* and the spans are as before, and no component is attached or destroyed.
C13_ShortTypeNoop ==
    [][\A c \in USlots :
        (/\ uhist'.calls = uhist.calls + 1
         /\ utasks'[c] # utasks[c]
         /\ NoType(utasks'[c].typeGuid))
        => /\ utasks'[c].pc = "done"
           /\ utasks'[c].trace = <<>>
           /\ utasks'[c].net = "none"
           /\ data' = data
           /\ ui'.hidden = ui.hidden
           /\ ui'.text = ui.text
           /\ live' = live
           /\ uploadInstances' = uploadInstances
           /\ uhist'.made = uhist.made]_vars

\* A one-character type is chosen on a page whose component is attached:
\* the call has ended without a step and the component is still there.
C13_Witness ==
    \E c, o \in USlots :
        /\ utasks[c].pc = "done"
        /\ utasks[c].typeGuid = Str(1)
        /\ utasks[c].trace = <<>>
        /\ utasks[o].pc = "done"
        /\ utasks[o].typeGuid = Str(2)
        /\ Len(utasks[o].trace) > 0
        /\ live["f1"] # {}
        /\ ui.selector = Str(1)

\* The metadata requests a call has issued.
Fetches(tr) == {i \in 1..Len(tr) : tr[i].kind = "fetch"}

\* C14: every initializeUpload() call whose type value is longer than one
\* character has issued exactly one metadata GET, to the type endpoint with
\* guid=<typeValue>, also when the same field and type were fetched before.
C14_OneFetchPerInit ==
    \A c \in USlots :
        (utasks[c].pc # "idle" /\ ~NoType(utasks[c].typeGuid))
        => /\ Cardinality(Fetches(utasks[c].trace)) = 1
           /\ \A i \in Fetches(utasks[c].trace) :
                /\ utasks[c].trace[i].name = "GET"
                /\ utasks[c].trace[i].arg = buildUrl(TypeEndpoint, utasks[c].typeGuid)

\* The metadata endpoint answered the call with {error: msg} and no record.
AnsweredError(t) ==
    t.answer.kind = "json" /\ t.answer.d # "object" /\ t.answer.err = "msg"

\* C15: an initialization whose metadata answer is {error: msg} ends with a
\* danger notification that carries msg, raised by the store's init() and
\* caught by the field's initializer.
C15_ErrorIsNotified ==
    \A c \in USlots :
        (utasks[c].pc = "done" /\ AnsweredError(utasks[c]))
        => \E i \in 1..Len(utasks[c].trace) :
                /\ utasks[c].trace[i].kind = "notify"
                /\ utasks[c].trace[i].name = "danger"
                /\ utasks[c].trace[i].arg = "msg"

\* The metadata request of the call failed: the network, a status that is
\* not OK, or a body that is not JSON.
FetchFailed(t) == t.net \in {"reject", "notok"} \/ t.answer = BadJson

StatusElements == {"progress", "success", "error"} \cap page.elements

\* C17: after a batch-completion callback, once the delay has elapsed and
\* no upload callback has shown an element since, each of the progress,
\* success and error elements that exists is hidden.
C17_HiddenAfterDelay ==
    (uhist.batches > 0 /\ timers = 0 /\ ~uhist.shown)
    => \A e \in StatusElements : ui.hidden[e]

\* The id and value of a parameter field, if the page has it.
Named(p) == IF inputs[p] = "missing" THEN <<>> ELSE <<p, inputs[p]>>

\* The values of the elements that the record of the attached component
\* names in display_fields, as the page stands.
NamedValues ==
    LET rec == data[uhist.keys[1]]
        ids == IF rec.exists THEN rec.f["display_fields"] ELSE Undefined
    IN  IF ids = "[p1,p2]" THEN Named("p1") \o Named("p2")
        ELSE IF ids = "[p1]" THEN Named("p1")
        ELSE <<>>

\* C18: a batch-completion callback on a field with a display endpoint and
\* an existing region starts exactly one display call, for that endpoint
\* and region, whose parameters are the values the elements named in
\* display_fields hold at that moment; without the endpoint or without the
\* region it starts none.
C18_OneDisplayPerBatch ==
    [][uhist'.batches = uhist.batches + 1 =>
        IF page.displayEndpoint /\ page.displayArea
        THEN /\ dhist'.n = dhist.n + 1
             /\ \E d \in DSlots :
                    /\ \A o \in DSlots \ {d} : dcalls'[o] = dcalls[o]
                    /\ dcalls[d].pc \in {"idle", "done"}
                    /\ dcalls'[d].pc = "fetch"
                    /\ dcalls'[d].region = "d1"
                    /\ dcalls'[d].url.path = "display"
                    /\ dcalls'[d].url.params = NamedValues
        ELSE dcalls' = dcalls /\ dhist' = dhist]_vars

\* The user changed p1 after the initialization and a batch completed: the
\* display call carries the new value.
C18_Witness ==
    /\ uhist.batches = 1
    /\ inputs["p1"] = "y"
    /\ \E d \in DSlots :
            /\ dcalls[d].pc = "fetch"
            /\ dcalls[d].url.params = <<"p1", "y", "p2", "x">>

\* C19: no asynchronous entry point lets a failure escape unhandled; for the
\* delete flow, no call, whether confirmed, declined or failed at its
\* request, leaves a promise rejection without a handler.
C19_NoFailureEscapes ==
    \A c \in XSlots : dels[c].pc # "idle" => ~dels[c].unhandled

\* C20: two initializations of distinct fields, whatever types of more
\* than one character they are for, store under different composite keys.
C20_KeysDiffer ==
    \A x, y \in keyed.made : x.id # y.id => x.key # y.key

\* C27: when a re-initialization is answered with a data object D, the
\* record of the key is D afterwards: a field of the earlier record that D
\* does not have is gone.
C27_ReinitOverwrites ==
    [][\A c \in USlots :
        LET e == utasks'[c]
        IN  (/\ utasks[c].pc = "json"
             /\ e.pc = "done"
             /\ e.answer.kind = "json"
             /\ e.answer.d = "object")
            => data'[CallKey(e.id, e.typeGuid)] = RecordOf(e.answer.obj)]_vars

\* The last step of a call, when it attached a component.
Attached(t) ==
    /\ t.pc = "done"
    /\ Len(t.trace) > 0
    /\ t.trace[Len(t.trace)].kind = "attach"

\* The component a call attached.
AttachedBy(t) == t.trace[Len(t.trace)].arg

\* C28 (revisions with #prepareUploadUI): a pending initialization is never
\* cancelled by a later one; when its response arrives it runs to its end
\* whatever type is selected by then, leaves the other pending call as it
\* was, attaches the newest component for its own type and writes the spans
\* from its own record, so that the response that arrives last decides.
C28_LastResponseWins ==
    [][\A c \in USlots :
        LET s == utasks[c]
            e == utasks'[c]
            call == CallKey(e.id, e.typeGuid)
        IN  (upRev # UikitUploader1 /\ s.pc \in {"fetch", "json"} /\ Attached(e))
            => /\ \A o \in USlots \ {c} : utasks'[o] = utasks[o]
               /\ AttachedBy(e).url = buildUrl(UploadEndpoint, e.typeGuid)
               /\ AttachedBy(e).handle \in live'[e.id]
               /\ \A h \in live'[e.id] : h <= AttachedBy(e).handle
               /\ ui'.text["allowedFormatSpan"] = get(data', call, "allow_span", "").v
               /\ ui'.text["fileTypeSpan"] = get(data', call, "file_type_span", "file").v
               /\ ui'.selector = ui.selector]_vars

\* The type was changed from A to B while A's request was pending and B's
\* response came first: B is selected, and the newest component and the
\* spans are A's.
C28_Witness ==
    \E a, b \in USlots :
        /\ upRev = UploadFile3
        /\ Attached(utasks[a]) /\ utasks[a].typeGuid = Str(2)
        /\ Attached(utasks[b]) /\ utasks[b].typeGuid = Str(36)
        /\ AttachedBy(utasks[b]).handle < AttachedBy(utasks[a]).handle
        /\ uhist.calls = 2
        /\ ui.selector = Str(36)
        /\ data["k1"] = RecordOf(FullRecord)
        /\ ~data["k2"].exists
        /\ ui.text["allowedFormatSpan"] = "(a)"
        /\ ui.text["fileTypeSpan"] = "image"

\* The notifications of a call.
Notified(t) == {i \in 1..Len(t.trace) : t.trace[i].kind = "notify"}

\* The initialization ended in the catch of initializeUpload.
Thrown(t) == t.pc = "done" /\ Notified(t) # {}

\* The change listener can start an initialization for a type.
CanChangeType == \E c \in FreeUploadSlot, a \in BOOLEAN : ChangeType(c, Str(2), a)

Initializing(t) == t.pc \in {"fetch", "json"}

\* C30 as stated: every initialization that is started for a type of more
\* than one character eventually has its upload component attached.
C30_EventuallyReady ==
    \A c \in USlots : Initializing(utasks[c]) ~> Attached(utasks[c])

\* C30, amended: every such initialization eventually ends, with its
\* component attached or, when uikit.upload() threw, with the danger
\* notification of the error; no call stays suspended for ever.
C30_EventuallyEnds ==
    \A c \in USlots :
        Initializing(utasks[c]) ~> (Attached(utasks[c]) \/ Thrown(utasks[c]))

\* A call whose request failed has its component attached, and another
\* ended with the library's error.
C30_Witness ==
    \E c, o \in USlots :
        /\ Attached(utasks[c])
        /\ utasks[c].net = "reject"
        /\ Thrown(utasks[o])
        /\ utasks[o].answer = BadJson

\* The mapping a list of (id, value) entries stands for.
ParamsMap(entries) ==
    LET at == {i \in 1..Len(entries) : i % 2 = 1}
    IN  [p \in {entries[i] : i \in at} |->
            entries[(CHOOSE i \in at : entries[i] = p) + 1]]

\* What getParams can be given: lists of ids, and values that are no list.
ParamsArguments == ArrayValues \cup {Null, Undefined} \cup Scalars

\* C23: getParams(ids) returns a mapping that holds exactly the ids whose
\* element exists, each with the value the element has at the call; ids
\* without an element are left out, and an argument that is no list or an
\* empty list gives the empty mapping.
C23_ParamsOfExisting ==
    \A ids \in ParamsArguments :
        LET m == ParamsMap(getParams(ids, inputs))
            listed == IF ids \in ArrayValues \ {"[]"}
                      THEN {ArrayItems(ids)[i] : i \in 1..Len(ArrayItems(ids))}
                      ELSE {}
        IN  /\ DOMAIN m = {p \in listed : inputs[p] # "missing"}
            /\ \A p \in DOMAIN m : m[p] = inputs[p]
            /\ Len(getParams(ids, inputs)) = 2 * Cardinality(DOMAIN m)

\* The record names p1 and p2, the page has no p2 and the user changed p1:
\* the call made at the batch's completion carries p1 alone, as it is now.
C23_Witness ==
    /\ inputs["p2"] = "missing"
    /\ inputs["p1"] = "y"
    /\ uhist.batches = 1
    /\ data[uhist.keys[1]] = RecordOf(FullRecord)
    /\ \E d \in DSlots : dcalls[d].pc = "fetch" /\ dcalls[d].url.params = <<"p1", "y">>

\* C24: no step of an initialization changes whether the progress bar is
\* hidden; the bar is un-hidden by load-start alone; and load-start,
\* progress and load-end each leave the bar's max and value at the total
\* and loaded of their event.
C24_OnlyLoadStartShowsBar ==
    [][/\ (utasks' # utasks) =>
            /\ ui'.hidden["progress"] = ui.hidden["progress"]
            /\ ui'.bar = ui.bar
       /\ (ui.hidden["progress"] /\ ~ui'.hidden["progress"]) =>
            uhist'.last.callback = "loadStart"
       /\ (/\ uhist'.last # uhist.last
           /\ uhist'.last.callback \in {"loadStart", "progress", "loadEnd"}
           /\ "progress" \in page.elements) =>
            /\ ui'.bar.max = uhist'.last.event.total
            /\ ui'.bar.value = uhist'.last.event.loaded
            /\ (uhist'.last.callback = "loadStart") => ~ui'.hidden["progress"]
            /\ (uhist'.last.callback # "loadStart") =>
                    ui'.hidden["progress"] = ui.hidden["progress"]]_vars

\* An upload ran to its load-end with the bar shown and full, the timer of
\* its batch hid the bar, and a second initialization left it hidden.
C24_Witness ==
    /\ uhist.last.callback = "loadEnd"
    /\ ui.bar = [max |-> 8, value |-> 8]
    /\ ui.hidden["progress"]
    /\ uhist.batches = 1
    /\ uhist.made = 2
    /\ \A c \in USlots : utasks[c].pc \in {"idle", "done"}

\* C29: the timer set at a batch's completion is never cancelled: an upload
\* callback, load-start included, leaves it pending, and when it fires it
\* hides the progress, success and error elements that exist, also when a
\* load-start has un-hidden the bar since the batch completed (UploadFile
\* and the UikitUploader of the bundles).
C29_TimerStillHides ==
    [][/\ (uhist'.last # uhist.last /\ uhist'.last.callback # "completeAll") =>
            timers' = timers
       /\ timers' >= timers - 1
       /\ (timers' < timers /\ upRev # UikitUploader1) =>
            \A e \in StatusElements : ui'.hidden[e]]_vars

\* A batch completed, the next upload's load-start un-hid the bar, and the
\* timer of the completed batch has hidden it again.
C29_Witness ==
    /\ upRev # UikitUploader1
    /\ StatusElements = {"progress", "success", "error"}
    /\ uhist.batches = 1
    /\ uhist.last.callback = "loadStart"
    /\ uhist.shown
    /\ timers = 0
    /\ \A e \in StatusElements : ui.hidden[e]

\* The initializations of a field that were started, settled or not.
StartedFor(b, id) == {p \in b.pending \cup b.attached : p.id = id}

\* C21: a field whose type selector is missing gets no change listener, no
\* metadata fetch and no upload component, at the bootstrap or later; every
\* other configured field, wherever it stands in the configuration, has its
\* listener when the constructor returns, and its first initialization
\* started when its selector holds a type.
C21_MissingSelectorSkipsField ==
    [][/\ \A id \in BootIds :
            boot.selector[id] = NoSelector =>
                /\ id \notin boot'.wired
                /\ StartedFor(boot', id) = {}
       /\ (~boot.loaded /\ boot'.loaded) =>
            \A i \in 1..Len(boot'.fields) :
                LET id == boot'.fields[i]
                    value == boot.selector[id]
                IN  value # NoSelector =>
                        /\ id \in boot'.wired
                        /\ value.len > 1 =>
                                [id |-> id, guid |-> value] \in boot'.pending]_vars

\* Two fields are configured, the first one's type selector is missing:
\* the second has its listener and its upload component.
C21_Witness ==
    /\ boot.loaded
    /\ Len(boot.fields) = 2
    /\ boot.selector[boot.fields[1]] = NoSelector
    /\ BootError("type field", boot.fields[1]) \in boot.errors
    /\ boot.fields[2] \in boot.wired
    /\ \E p \in boot.attached : p.id = boot.fields[2]

\* The elements of the target class whose id has an upload endpoint.
WithUpload(b) ==
    {b.elements[i] : i \in {j \in 1..Len(b.elements) :
                                b.config.fields[b.elements[j]].endpoint_upload}}

\* C25: the bootstrap of a page without the type endpoint or without the
\* target class constructs no orchestrator and no deleter; otherwise the
\* fields configured are the elements of the target class that have an
\* upload endpoint, an element without one being logged and the others
\* kept, and the orchestrator is constructed once when there is such a
\* field and not at all when there is none.
C25_ConfigErrorSkipsFeature ==
    [][/\ (~boot.loaded /\ boot'.loaded /\ boot.vdm) =>
            IF ~boot.config.endpoint_type \/ ~boot.config.target_class
            THEN /\ boot'.orchestrators = 0
                 /\ boot'.registry = boot.registry
                 /\ boot'.fields = <<>>
                 /\ boot'.wired = {}
            ELSE /\ {boot'.fields[i] : i \in 1..Len(boot'.fields)} = WithUpload(boot)
                 /\ boot'.orchestrators = IF WithUpload(boot) # {} THEN 1 ELSE 0
                 /\ \A i \in 1..Len(boot.elements) :
                        ~boot.config.fields[boot.elements[i]].endpoint_upload =>
                            BootError("upload endpoint", boot.elements[i]) \in boot'.errors
       /\ boot.loaded => boot'.orchestrators = boot.orchestrators]_vars

\* The first element of the target class has no upload endpoint, the second
\* has one: the orchestrator is there for the second alone.
C25_Witness ==
    /\ boot.loaded
    /\ Len(boot.elements) = 2
    /\ ~boot.config.fields[boot.elements[1]].endpoint_upload
    /\ boot.fields = <<boot.elements[2]>>
    /\ boot.orchestrators = 1
    /\ boot.elements[2] \in boot.wired

\* A step of VDMDeleteFile: what it started beyond the flows there were.
DeleteAsked == boot'.calls = boot.calls + 1 /\ boot'.selector = boot.selector

\* The flow delete(guid) of the deleter made for id starts: the dialog,
\* unless the deleter ignores the guid.
FlowOf(id, guid) ==
    [deleter |-> id, guid |-> guid, prompt |-> guid.len > GuidLengthLimit]

\* VDMDeleteFile(id, guid) starts the flow of the deleter registered for id
\* and no other; without one it starts nothing.
StartsRegisteredFlowOnly ==
    DeleteAsked =>
        LET id == boot'.asked.id
            guid == boot'.asked.guid
        IN  /\ boot'.registry = boot.registry
            /\ IF boot.registry.exists /\ id \in boot.registry.of
               THEN boot'.flows = boot.flows \cup {FlowOf(id, guid)}
               ELSE boot'.flows = boot.flows

\* C26: VDMDeleteFile(id, guid) starts the delete flow of the deleter
\* registered for id and of no other, and nothing when none is registered;
\* after the bootstrap the registry holds a deleter for exactly the ids for
\* which a delete endpoint is configured.
C26_DeleterPerDeleteEndpoint ==
    [][/\ StartsRegisteredFlowOnly
       /\ boot'.loaded =>
            boot'.registry.of =
                {id \in BootIds : boot.config.fields[id].endpoint_delete}]_vars

\* The fields the bootstrap configures: with the type endpoint and the
\* target class given, the elements of the target class that have an upload
\* endpoint.
Configured(b) ==
    IF b.vdm /\ b.config.endpoint_type /\ b.config.target_class
    THEN WithUpload(b) ELSE {}

\* C26, amended: VDMDeleteFile(id, guid) starts the delete flow of the
\* deleter registered for id and of no other, and nothing when none is
\* registered; after the bootstrap the registry holds a deleter for exactly
\* the configured fields that have a delete endpoint, and none before it.
C26_DeleterPerConfiguredField ==
    [][/\ StartsRegisteredFlowOnly
       /\ boot'.registry.of =
            IF boot'.loaded
            THEN {id \in Configured(boot) : boot.config.fields[id].endpoint_delete}
            ELSE {}]_vars

\* Both ids have a delete endpoint, one of them has no upload endpoint: a
\* call for the configured one opened its dialog, a call for the other
\* found no deleter and started nothing.
C26_Witness ==
    /\ boot.loaded
    /\ \A id \in BootIds : boot.config.fields[id].endpoint_delete
    /\ \E id \in BootIds, other \in BootIds :
            /\ id # other
            /\ boot.registry.of = {id}
            /\ ~boot.config.fields[other].endpoint_upload
            /\ Len(boot.elements) = 2
            /\ boot.flows = {FlowOf(id, Str(GuidLengthLimit + 6))}
            /\ BootError("delete_file", other) \in boot.errors

\* The entry of a record, or what stands for it when the record lacks it.
EntryOr(rec, field, absent) ==
    IF rec.f[field] \in {Undefined, Null} THEN absent ELSE rec.f[field]

\* C31: when an initialization ends with a component attached and the
\* record R of its field and type in the store, the success and error
\* elements are hidden, the allowed-format span shows R.allow_span or
\* nothing, the file-type span shows R.file_type_span or 'file', and the
\* component has the upload endpoint with guid=<type> as url, multiple on,
\* R.allow or no filter as allow and R.name or 'files' as name.
C31_RecordConfiguresField ==
    [][\A c \in USlots :
        LET e == utasks'[c]
            rec == data'[CallKey(e.id, e.typeGuid)]
        IN  (utasks[c].pc # "done" /\ Attached(e) /\ rec.exists)
            => /\ \A x \in {"success", "error"} \cap page.elements : ui'.hidden[x]
               /\ "allowedFormatSpan" \in page.elements =>
                    ui'.text["allowedFormatSpan"] = EntryOr(rec, "allow_span", "")
               /\ "fileTypeSpan" \in page.elements =>
                    ui'.text["fileTypeSpan"] = EntryOr(rec, "file_type_span", "file")
               /\ AttachedBy(e).url.path = "upload"
               /\ AttachedBy(e).url.params = <<"guid", e.typeGuid>>
               /\ AttachedBy(e).multiple
               /\ AttachedBy(e).allow = EntryOr(rec, "allow", "false")
               /\ AttachedBy(e).name = EntryOr(rec, "name", "files")]_vars

\* A step of the pre-send callback.
Sends ==
    /\ uhist'.last.callback = "beforeSend"
    /\ (uhist'.last # uhist.last \/ uhist'.request # uhist.request)

\* The values that the elements the record of the component names in
\* param_fields hold, as the page stands.
LiveParams(hi, in) ==
    LET rec == data[hi.keys[Len(hi.keys)]]
        ids == IF rec.exists THEN rec.f["param_fields"] ELSE Undefined
        named(p) == IF in[p] = "missing" THEN <<>> ELSE <<p, in[p]>>
    IN  IF ids = "[p1,p2]" THEN named("p1") \o named("p2")
        ELSE IF ids = "[p1]" THEN named("p1")
        ELSE <<>>

\* beforeSend is dispatched, then params is set, then afterSendPreparation
\* is dispatched.
SendsInOrder ==
    uhist'.last.trace =
        <<UploadEvent("beforeSend"),
          Did("assign", "environment.data.params", "getParams"),
          UploadEvent("afterSendPreparation")>>

\* C32 as stated: every pre-send callback emits beforeSend, then merges
\* into the params of the request the values the elements named in
\* param_fields hold at that moment, then emits afterSendPreparation; what
\* the payload held before, its params included, is kept.
C32_SendMergesParams ==
    [][(Sends /\ upRev # UikitUploader1) =>
        LET found == uhist'.request.before
            left == uhist'.request.after
            now == ParamsMap(left.params.entries)
            was == ParamsMap(found.params.entries)
            fresh == ParamsMap(LiveParams(uhist, inputs))
        IN  /\ SendsInOrder
            /\ \A p \in DOMAIN fresh : p \in DOMAIN now /\ now[p] = fresh[p]
            /\ left.files = found.files
            /\ \A p \in DOMAIN was : p \in DOMAIN now /\ now[p] = was[p]]_vars

\* C32, amended: every pre-send callback emits beforeSend, then sets the
\* params of the request to the values the elements named in param_fields
\* hold at that moment and to nothing else, then emits
\* afterSendPreparation; the other entries of the payload are kept.
C32_SendSetsParams ==
    [][(Sends /\ upRev # UikitUploader1) =>
        LET found == uhist'.request.before
            left == uhist'.request.after
        IN  /\ SendsInOrder
            /\ left.params.given
            /\ left.params.entries = LiveParams(uhist, inputs)
            /\ left.files = found.files]_vars

\* A listener had put a token into params, the user had changed p1 since
\* the initialization: the request leaves with the new value of p1 alone.
C32_Witness ==
    /\ upRev = UploadFile3
    /\ uhist.last.callback = "beforeSend"
    /\ uhist.request.before.params.entries = <<"token", "t">>
    /\ uhist.request.after.params.entries = <<"p1", "y">>
    /\ inputs["p1"] = "y"
    /\ inputs["p2"] = "missing"
    /\ data[uhist.keys[1]] = RecordOf(SendRecord)

\* A call that ended with content to show: an OK answer, a JSON object
\* without error field whose data is a string that is not blank.
ShowsContent(s) ==
    /\ s.ok
    /\ s.body.kind = "json"
    /\ s.body.err = "absent"
    /\ s.body.d \in DataStrings
    /\ Trim(s.body.d) # ""

\* C33: a display call that ends on an error (the request fails, the status
\* is not OK, the body has an error field or is malformed) or with empty
\* content leaves its region empty.
C33_ErrorEmptiesRegion ==
    [][\A c \in DSlots :
        (/\ dcalls[c].pc \in {"fetch", "json"}
         /\ dcalls'[c].pc = "done"
         /\ ~ShowsContent(dcalls'[c]))
        => area'[dcalls[c].region].content = ""]_vars

\* C34: a confirmed delete of a deleter without endpoint ends there: no
\* event, no request, no removal and no notification, then or later, and
\* the list items stay; with an endpoint the confirmation dispatches
\* beforeFileDelete and then issues the GET for the guid.
C34_NoEndpointNoEffect ==
    [][/\ delEndpoint = NoEndpoint =>
            /\ nodes' = nodes
            /\ \A c \in XSlots : \A i \in 1..Len(dels'[c].trace) :
                    dels'[c].trace[i].kind = "confirm"
       /\ \A c \in XSlots :
            (dels[c].pc = "confirm" /\ dels'[c].pc \notin {"confirm", "declined"}) =>
                IF delEndpoint = NoEndpoint
                THEN dels'[c].pc = "done" /\ dels'[c].trace = dels[c].trace
                ELSE /\ dels'[c].pc = "fetch"
                     /\ Len(dels'[c].trace) = Len(dels[c].trace) + 2
                     /\ SubSeq(dels'[c].trace, 1, Len(dels[c].trace)) = dels[c].trace
                     /\ LET n == Len(dels'[c].trace)
                            event == dels'[c].trace[n - 1]
                            request == dels'[c].trace[n]
                        IN  /\ event.kind = "event"
                            /\ event.arg = "beforeFileDelete"
                            /\ event.detail.guid = dels[c].guid
                            /\ request.kind = "fetch"
                            /\ request.name = "GET"
                            /\ request.arg.params = <<"guid", dels[c].guid>>]_vars

\* Without an endpoint, the delete of a file that is listed was confirmed:
\* the call is over, it did nothing after the dialog, the item is there.
C34_Witness ==
    \E c \in XSlots :
        /\ delEndpoint = NoEndpoint
        /\ dels[c].pc = "done"
        /\ dels[c].trace = <<Did("confirm", "modal.confirm", "")>>
        /\ dels[c].guid \in nodes

\* C35: when the type selector of a field that has its upload component
\* changes to an empty or one-character value, nothing but the selector
\* changes: the components that are live stay live, each bound to the key
\* of the type it was attached for, the spans and the status elements keep
\* what they show, no record of the store changes and no request is made.
C35_ShortTypeKeepsReady ==
    [][(/\ uhist'.calls = uhist.calls + 1
        /\ uhist.constructed
        /\ live["f1"] # {}
        /\ ui'.selector.len <= 1)
       => /\ live' = live
          /\ uploadInstances' = uploadInstances
          /\ uhist'.made = uhist.made
          /\ uhist'.keys = uhist.keys
          /\ ui'.text = ui.text
          /\ ui'.hidden = ui.hidden
          /\ ui'.bar = ui.bar
          /\ data' = data
          /\ dcalls' = dcalls
          /\ \A c \in USlots :
                \/ utasks'[c] = utasks[c]
                \/ utasks'[c].pc = "done" /\ utasks'[c].trace = <<>>]_vars

\* The field was ready for a type of two characters when a one-character
\* value was selected: the component, its key and the spans are those of
\* the first type.
C35_Witness ==
    /\ live["f1"] = {1}
    /\ uhist.keys = <<"k1">>
    /\ ui.selector = Str(1)
    /\ utasks[1].pc = "done" /\ utasks[1].typeGuid = Str(1)
    /\ utasks[2].pc = "idle"
    /\ data["k1"] = RecordOf(FullRecord)
    /\ ui.text["fileTypeSpan"] = "image"

\* A call of the display that is in flight.
InFlight(s) == s.pc \in {"fetch", "json"}

\* C36: display calls on one region overlap freely: a call is issued
\* while another is in flight, a response that arrives is handled as that
\* of a lone call would be, against the region as it is then, and leaves
\* every other call as it was, in flight or done; a response with content
\* puts its content into the region whatever the order of the requests.
C36_OverlappingSetsLastArrivedWins ==
    [][\A c \in DSlots :
        (InFlight(dcalls[c]) /\ dcalls'[c].pc = "done") =>
            LET r == dcalls[c].region
                s == dcalls'[c]
            IN  /\ \A o \in DSlots \ {c} : dcalls'[o] = dcalls[o]
                /\ \A o \in Regions \ {r} : area'[o] = area[o]
                /\ ShowsContent(s) => area'[r].content = s.body.d
                /\ (s.ok /\ s.body.kind = "json" /\ s.body.err = "absent"
                        /\ BlankTest(s.body.d) = "blank")
                        => area'[r].content = ""
                /\ (s.ok /\ s.body.kind = "json") =>
                        area'[r] = AreaAfter(area[r],
                            DisplayRender(dispRev, area[r], dhist.touched[r], s.body))]_vars

\* The fetch of the construction, without parameters, and the refresh
\* after a batch, with the guid, were both issued before either was
\* answered; the refresh was answered first and shown, the answer to the
\* first request arrived last, found the content of the refresh in the
\* region and replaced it.
C36_Witness ==
    /\ dispRev = Display3
    /\ dhist.n = 2
    /\ dcalls[1].url.params = <<>>
    /\ dcalls[2].url.params = <<"guid", "g1">>
    /\ dcalls[1].pc = "done" /\ dcalls[2].pc = "done"
    /\ dcalls[1].trace[2].t = FALSE /\ dcalls[2].trace[2].t = FALSE
    /\ dcalls[2].body.d = "<p>x</p>" /\ ShowsContent(dcalls[2])
    /\ dcalls[1].body.d = " <p>y</p> " /\ ShowsContent(dcalls[1])
    /\ Len(dcalls[1].trace) = 6
    /\ dcalls[1].trace[3].name = "beforeFilesDisplay"
    /\ dcalls[1].trace[3].a.content = "<p>x</p>"
    /\ area["d1"].content = " <p>y</p> "

\* How many entries of a trace are the step named.
Count(tr, step) == Cardinality({i \in 1..Len(tr) : Steps(tr)[i] = step})

\* A call that was answered with {success}.
Succeeded(s) == s.pc = "done" /\ s.answer.kind = "json" /\ s.answer.success # "absent"

\* C37: of two confirmed delete calls for one id, one confirmed while the
\* request of the other was out, each has issued its own GET; the {success} response handled first
\* removes the list item after beforeFileRemoveFromUI, the {success}
\* response handled second shows the primary notification and dispatches
\* afterFileDelete and nothing else, so that the event of the removal is
\* dispatched at most once over both calls.
C37_TwoDeletesOneRemoval ==
    [][\A c, o \in XSlots :
        (/\ c # o
         /\ dels[c].guid = dels[o].guid
         /\ dels[c].over \/ dels[o].over
         /\ dels[o].pc \in {"fetch", "json", "done"}
         /\ dels[c].pc = "json"
         /\ Succeeded(dels'[c]))
        => LET g == dels[c].guid
               added == SubSeq(dels'[c].trace, Len(dels[c].trace) + 1,
                               Len(dels'[c].trace))
               n == Len(added)
           IN  /\ dels'[o] = dels[o]
               /\ Count(dels'[c].trace, "fetch") = 1
               /\ Count(dels'[o].trace, "fetch") = 1
               /\ dels'[c].trace[3].arg.params = <<"guid", g>>
               /\ dels'[o].trace[3].arg.params = <<"guid", g>>
               /\ IF Succeeded(dels[o])
                  THEN /\ Steps(added) = <<"notify", "afterFileDelete">>
                       /\ nodes' = nodes
                  ELSE g \in nodes =>
                       /\ Steps(added) = <<"beforeFileRemoveFromUI", "remove",
                                           "notify", "afterFileDelete">>
                       /\ nodes' = nodes \ {g}
               /\ added[n - 1].name = "primary"
               /\ added[n - 1].arg = dels'[c].answer.success
               /\ added[n].detail = [guid |-> g, data |-> dels'[c].answer]
               /\ Count(dels'[c].trace, "beforeFileRemoveFromUI")
                    + Count(dels'[o].trace, "beforeFileRemoveFromUI") <= 1
               /\ Cardinality({x \in XSlots : \E i \in 1..Len(dels'[x].trace) :
                        dels'[x].trace[i].kind = "remove"
                            /\ dels'[x].trace[i].arg = g}) <= 1]_vars

\* The second call for a listed file was confirmed while the request of
\* the first was out; both were answered with {success}: the second call,
\* answered first, removed the item, the first call notified only.
C37_Witness ==
    /\ dels[1].guid = dels[2].guid
    /\ dels[1].no = 1 /\ dels[2].no = 2
    /\ dels[2].over
    /\ Succeeded(dels[1]) /\ Succeeded(dels[2])
    /\ dels[2].present /\ ~dels[1].present
    /\ Steps(dels[2].trace) = <<"confirm", "beforeFileDelete", "fetch",
                                "beforeFileRemoveFromUI", "remove", "notify",
                                "afterFileDelete">>
    /\ Steps(dels[1].trace) = <<"confirm", "beforeFileDelete", "fetch", "notify",
                                "afterFileDelete">>
    /\ dels[1].guid \notin nodes

\* C38: the constructor of the later revisions issues one display request
\* for the field, without parameters, exactly when the field has a display
\* endpoint and its region exists, whether or not the type selector exists
\* and whatever type it holds, and the metadata request of the selected
\* type, if any, comes with it; no type change and no answer issues
\* another.
C38_DisplayAtConstruction ==
    [][/\ (~uhist.constructed /\ uhist'.constructed /\ upRev # UikitUploader1) =>
            IF ShowsDisplay
            THEN /\ dhist'.n = dhist.n + 1
                 /\ \E d \in DSlots :
                        /\ dcalls[d].pc = "idle"
                        /\ dcalls'[d].pc = "fetch"
                        /\ dcalls'[d].region = UploadRegion
                        /\ dcalls'[d].url.path = UploadDisplayEndpoint.path
                        /\ dcalls'[d].url.params = <<>>
                        /\ \A o \in DSlots \ {d} : dcalls'[o] = dcalls[o]
            ELSE dcalls' = dcalls /\ dhist' = dhist
       /\ (uhist.constructed /\ upRev # UikitUploader1) => dhist'.n = dhist.n
       /\ (~uhist.constructed /\ upRev # UikitUploader1) => dhist.n = 0]_vars

\* The page has a display endpoint and its region but no type selector:
\* the constructor has run, the display request is out, without
\* parameters, and no initialization was started.
C38_Witness ==
    /\ upRev = UploadFile3
    /\ ~page.typeField
    /\ ShowsDisplay
    /\ uhist.constructed
    /\ uhist.calls = 0
    /\ dhist.n = 1
    /\ dcalls[1].pc = "fetch"
    /\ dcalls[1].url.params = <<>>
    /\ \A c \in USlots : utasks[c].pc = "idle"
====
